---- MODULE Spec2Model ----
(***************************************************************************)
(* Model of the lazy-crawl incremental crawlers: the Twitter list crawler  *)
(* (tweet.ts), the Gmail per-sender crawler (gmail.ts), the Facebook feed  *)
(* crawler (fb.ts) and the persisted watermark document (utils.ts).        *)
(*                                                                         *)
(* Representation: an id (tweet id, Gmail message id) is a positive        *)
(* natural; NoId (0) is the falsy value (null, undefined or ''). A text is *)
(* a sequence of one-character strings; the empty sequence is the falsy    *)
(* text (null or '').  A timestamp is the number of the run that read the  *)
(* clock; NoTime (0) is null.                                              *)
(***************************************************************************)
EXTENDS Naturals, Integers, Sequences, FiniteSets, TLC

VARIABLES
    stateFile,        \* the persisted CrawlState document (crawl-state.json)
    artifacts,        \* the artifacts written so far, oldest first
    runs,             \* number of crawl runs started so far
    gained,           \* number of items the sources gained between runs so far
    exitStatus,       \* exit status of the latest crawl process (Running: none yet)
    runLog,           \* of the latest run: the document and the number of
                      \* artifacts at its start, the items it held when its
                      \* loop ended, whether an error left its crawl function
    twSource,         \* the Twitter list: tweet ids, newest first
    twNextId,         \* the id the next new tweet receives
    twPc,             \* position of tweet.ts crawl()
    twLastSeenId,     \* crawl(): const lastSeenId
    twPosts,          \* crawl(): posts
    twStoppedReason,  \* crawl(): stoppedReason
    twCursor,         \* crawl(): cursor (NoId is '')
    twPageCount,      \* crawl(): pageCount
    twFetched,        \* the tweets of all pages fetched in this run, in order
    twLastPage,       \* the page fetched last in this run (result: list, next)
    twPagesGoOn,      \* every page fetched in this run had tweets and a next cursor
    gmConfig,         \* gmail.ts loadConfig(): allowedSenders, maxEmails
    gmSource,         \* the mailbox: per sender query its message ids, newest first
    gmNextId,         \* the id the next new message receives
    gmPc,             \* position of gmail.ts crawlNewsletters() / crawlSender()
    gmSeenIdsBySender, \* crawlNewsletters(): seenIdsBySender as read at the start
    gmIdx,            \* crawlNewsletters(): index of the sender being crawled
    gmAllEmails,      \* crawlNewsletters(): allEmails
    gmEmailsBySender, \* crawlNewsletters(): emailsBySender (Map, insertion order)
    gmFinalStoppedReason, \* crawlNewsletters(): finalStoppedReason
    gmSeenIds,        \* crawlSender(): seenIds
    gmEmails,         \* crawlSender(): emails
    gmPageToken,      \* crawlSender(): pageToken (NoId is undefined)
    gmStoppedReason,  \* crawlSender(): stoppedReason
    gmListed,         \* the entries of all pages listed in this sub-run, in order
    gmLastPage,       \* the page listed last in this sub-run (messages, next)
    gmListCount,      \* number of list calls answered in this sub-run
    gmFetched,        \* the ids passed to fetchEmail in this sub-run, in order
    gmSubRuns,        \* the crawlSender calls of this run that ended, in order:
                      \* sender index, threw or returned scroll_limit or neither
    fbFeed,           \* the Facebook feed: its story elements, newest first
    fbEnv,            \* process.env.FB_MAX_SCROLL as a number (0: not set)
    fbPc,             \* position of fb.ts crawl() / extractPosts()
    fbDom,            \* number of feed elements rendered in the page so far
    fbSeenPosts,      \* crawl(): seenPosts
    fbPosts,          \* extractPosts(): posts
    fbSeenContent,    \* extractPosts(): seenContent
    fbStoppedReason,  \* extractPosts(): stoppedReason
    fbScroll,         \* extractPosts(): scroll
    fbChecked,        \* postId and contentHash of the elements that reached
                      \* the seen check of line 127 in this run, in order
    fbCheckedAt,      \* fbScrolled when the last of them reached it
    fbScrolled,       \* number of window.scrollBy calls of this run
    fbFaults,         \* number of rejected page and element calls so far
    fbOps,            \* the page calls of the latest scroll step, in order
    fbThrown,         \* feed positions whose extraction threw in this run
    utPc,             \* the utils.ts functions are called directly ("absent": not)
    utCalls,          \* number of direct calls so far
    utCall,           \* the latest direct call: function and arguments
    utBefore,         \* the persisted document before the latest direct call
    utReturn,         \* what the latest direct call returned (FALSE: nothing)
    leanPc,           \* position of lean.ts main() ("absent": it does not run)
    leanSource,       \* the items and metadata the artifact was emitted from
    leanRaw,          \* main(): raw, the artifact read from data/raw
    leanParsed,       \* main(): parsed
    leanOut,          \* main(): lean, the lean artifact written to data/lean
    leanReparsed,     \* parseMdFile of the lean artifact
    upPc,             \* per crawl process running beside another: position
                      \* of its updateXState call ("absent": not running)
    upState,          \* per process: updateXState(): const state
    upCall,           \* per process: the arguments of its updateXState call
    upEvents          \* the reads and writes of the document, in order

twVars == <<twSource, twNextId, twPc, twLastSeenId, twPosts, twStoppedReason,
            twCursor, twPageCount, twFetched, twLastPage,
                   twPagesGoOn>>

gmVars == <<gmConfig, gmSource, gmNextId, gmPc, gmSeenIdsBySender, gmIdx,
            gmAllEmails, gmEmailsBySender, gmFinalStoppedReason, gmSeenIds,
            gmEmails, gmPageToken, gmStoppedReason, gmListed, gmLastPage,
                   gmListCount, gmFetched, gmSubRuns>>

fbVars == <<fbFeed, fbEnv, fbPc, fbDom, fbSeenPosts, fbPosts, fbSeenContent,
            fbStoppedReason, fbScroll, fbChecked, fbCheckedAt, fbScrolled,
            fbFaults, fbOps, fbThrown>>

utVars == <<utPc, utCalls, utCall, utBefore, utReturn>>

leanVars == <<leanPc, leanSource, leanRaw, leanParsed, leanOut, leanReparsed>>

upVars == <<upPc, upState, upCall, upEvents>>

vars == <<stateFile, artifacts, runs, gained, exitStatus, runLog, twVars,
          gmVars, fbVars, utVars, leanVars, upVars>>

\* what a crawler leaves alone: the variables of the other crawlers, of
\* the direct calls and of lean.ts
nonTwVars == <<gmVars, fbVars, utVars, leanVars, upVars>>
nonGmVars == <<twVars, fbVars, utVars, leanVars, upVars>>
nonFbVars == <<twVars, gmVars, utVars, leanVars, upVars>>
nonUtVars == <<twVars, gmVars, fbVars, leanVars, upVars>>
nonLeanVars == <<stateFile, artifacts, runs, gained, exitStatus, runLog,
                 twVars, gmVars, fbVars, utVars, upVars>>
nonUpVars == <<artifacts, runs, gained, exitStatus, runLog,
               twVars, gmVars, fbVars, utVars, leanVars>>

----------------------------------------------------------------------------
(* Bounds of the model                                                     *)

MaxRuns == 2          \* crawl runs per behaviour
PageMax == 3          \* most items a source returns in one page
MaxNew == 1           \* most items a source gains between two runs
TwInitLen == 11       \* longest Twitter list at the start
GmInitLen == 3        \* longest sender mailbox at the start
GmMaxEmails == 2      \* largest configured maxEmails
GmPageMax == 2        \* most message entries the mailbox lists in one page
FbLoadMax == 2        \* most feed elements the page renders per scroll step
FbEnvMax == 2         \* the configured FB_MAX_SCROLL
FbFaultMax == 1       \* most page and element calls that misbehave
MaxItems == 2         \* most items of an artifact given to lean.ts
GmBlankMax == 3       \* most entries without an id at the head of a listing

(* Program constants                                                       *)

MAX_PAGES_off == 10 + 1

MAX_PAGES == 10

NoId == 0
NoTime == 0

(* The exit status while no crawl process has ended *)
Running == -1

----------------------------------------------------------------------------
(* Helpers                                                                 *)

Min(a, b) == IF a < b THEN a ELSE b

Range(s) == {s[i] : i \in 1..Len(s)}

\* JS Array.prototype.slice(0, n)
Slice(s, n) == SubSeq(s, 1, Min(n, Len(s)))

\* <<n, n-1, ..., 1>>
Descending(n) == [i \in 1..n |-> n + 1 - i]

(* utils.ts DEFAULT_STATE *)
DEFAULT_STATE ==
    [facebook |-> [lastSeenPosts |-> <<>>, lastCrawlTime |-> NoTime],
     twitter  |-> [lastSeenId |-> NoId, lastCrawlTime |-> NoTime],
     gmail    |-> [seenIdsBySender |-> [k \in {} |-> <<>>],
                   lastCrawlTime |-> NoTime]]

(* utils.ts readCrawlState / writeCrawlState on a readable document *)
readCrawlState == stateFile

(* A crawl process starts: nothing has exited, the run's log is opened *)
RunStarts ==
    /\ exitStatus' = Running
    /\ runLog' = [state |-> stateFile, artifacts |-> Len(artifacts),
                  captured |-> 0, threw |-> FALSE]

(* The run's loop is over holding n items *)
RunHolds(n) == runLog' = [runLog EXCEPT !.captured = n]

(* An error leaves the run's crawl function *)
RunThrows == runLog' = [runLog EXCEPT !.threw = TRUE]

(* utils.ts updateTwitterState, lines 162-164: the document written when  *)
(* readCrawlState returned state                                           *)
TwitterStateFrom(state, id, now) ==
    [state EXCEPT !.twitter = [lastSeenId |-> id, lastCrawlTime |-> now]]

(* the document built from the defaults instead of the document read *)
updateTwitterState_fromDefault(id, now) ==
    TwitterStateFrom(DEFAULT_STATE, id, now)

(* utils.ts updateTwitterState: the document after the call *)
updateTwitterState(id, now) == TwitterStateFrom(readCrawlState, id, now)

----------------------------------------------------------------------------
(* tweet.ts crawl()                                                        *)

(* Index of the first tweet of list whose id is lastSeenId, 0 when the     *)
(* for-loop runs to the end (lines 54-61).                                 *)
FoundPreviousAt(list, lastSeenId) ==
    IF lastSeenId # NoId /\ \E i \in 1..Len(list) : list[i] = lastSeenId
    THEN CHOOSE i \in 1..Len(list) :
            /\ list[i] = lastSeenId
            /\ \A j \in 1..(i - 1) : list[j] # lastSeenId
    ELSE 0

(* The TwitterPost built from a tweet (lines 63-72); the fields other than *)
(* the id are copied payload.                                              *)
TwitterPost(tweet) == [id |-> tweet]

CapturedOfPage_inclusive(list, lastSeenId) ==
    LET at == FoundPreviousAt(list, lastSeenId)
        kept == IF at = 0 THEN list ELSE SubSeq(list, 1, at)
    IN  [i \in 1..Len(kept) |-> TwitterPost(kept[i])]

(* The posts pushed while scanning one page (lines 54-77) *)
CapturedOfPage(list, lastSeenId) ==
    LET at == FoundPreviousAt(list, lastSeenId)
        kept == IF at = 0 THEN list ELSE SubSeq(list, 1, at - 1)
    IN  [i \in 1..Len(kept) |-> TwitterPost(kept[i])]

(* No page was fetched yet *)
NoPage == [list |-> <<>>, next |-> NoId]

(* lines 16-38: read the state, initialise the locals *)
TwStart ==
    /\ twPc \in {"idle", "done", "failed"}
    /\ runs < MaxRuns
    /\ runs' = runs + 1
    /\ twLastSeenId' = readCrawlState.twitter.lastSeenId
    /\ twPosts' = <<>>
    /\ twStoppedReason' = "api_limit"
    /\ twCursor' = NoId
    /\ twPageCount' = 0
    /\ twFetched' = <<>>
    /\ twLastPage' = NoPage
    /\ twPagesGoOn' = TRUE
    /\ twPc' = "loop"
    /\ RunStarts
    /\ UNCHANGED <<stateFile, artifacts, twSource, twNextId>>
    /\ UNCHANGED nonTwVars
    /\ UNCHANGED gained

(* line 47: the page carries no tweets *)
PageIsEmpty(list) == Len(list) = 0

(* line 84: the page carries no next cursor *)
NoNextPage(next) == next = NoId

(* stoppedReason after the page was scanned (lines 36, 47-61) *)
ReasonAfterPage(list, lastSeenId, reason) ==
    IF ~PageIsEmpty(list) /\ FoundPreviousAt(list, lastSeenId) # 0
    THEN "reached_previous"
    ELSE reason

(* One of the break statements of lines 49, 80 and 86 is taken *)
BreaksAfterPage(list, next, lastSeenId) ==
    \/ PageIsEmpty(list)
    \/ FoundPreviousAt(list, lastSeenId) # 0
    \/ NoNextPage(next)

(* One iteration of the while loop (lines 41-90). The list answers a fetch *)
(* at cursor with the next k tweets of the list (k may be 0) and with or   *)
(* without a next cursor.                                                  *)
TwPage ==
    /\ twPc = "loop"
    /\ twPageCount < MAX_PAGES
    /\ \E k \in 0..Min(PageMax, Len(twSource) - twCursor), hasNext \in BOOLEAN :
        LET list == SubSeq(twSource, twCursor + 1, twCursor + k)
            next == IF hasNext THEN twCursor + k ELSE NoId
            stop == BreaksAfterPage(list, next, twLastSeenId)
        IN  /\ twPageCount' = twPageCount + 1
            /\ twFetched' = twFetched \o list
            /\ twLastPage' = [list |-> list, next |-> next]
            /\ twPagesGoOn' = (twPagesGoOn /\ list # <<>> /\ next # NoId)
            /\ twPosts' = IF PageIsEmpty(list) THEN twPosts
                          ELSE twPosts \o CapturedOfPage(list, twLastSeenId)
            /\ twStoppedReason' = ReasonAfterPage(list, twLastSeenId, twStoppedReason)
            /\ twCursor' = IF stop THEN twCursor ELSE next
            /\ twPc' = IF stop \/ ~(twPageCount + 1 < MAX_PAGES)
                       THEN "results" ELSE "loop"
    /\ UNCHANGED <<stateFile, artifacts, runs, twSource, twNextId, twLastSeenId>>
    /\ UNCHANGED nonTwVars
    /\ UNCHANGED <<gained, exitStatus, runLog>>

TwAfterThrow_caught == "results"

(* line 45 throws inside no try block: the rejection leaves crawl() *)
TwAfterThrow == "failed"

(* line 45 throws: crawl() rejects, line 134 logs the error with            *)
(* console.error and the process ends without an exit code being set        *)
TwFetchThrows ==
    /\ twPc = "loop"
    /\ twPageCount < MAX_PAGES
    /\ twPageCount' = twPageCount + 1
    /\ twPc' = TwAfterThrow
    /\ exitStatus' = IF TwAfterThrow = "failed" THEN 0 ELSE exitStatus
    /\ UNCHANGED <<stateFile, artifacts, runs, twSource, twNextId, twLastSeenId,
                   twPosts, twStoppedReason, twCursor, twFetched, twLastPage,
                   twPagesGoOn>>
    /\ UNCHANGED nonTwVars
    /\ RunThrows
    /\ UNCHANGED gained

NoTweetsFound_never(posts) == FALSE

(* line 93: posts.length === 0 *)
NoTweetsFound(posts) == Len(posts) = 0

(* lines 92-124: nothing to do for an empty result (crawl() resolves and   *)
(* the process ends), else write the artifact                              *)
TwResults ==
    /\ twPc = "results"
    /\ RunHolds(Len(twPosts))
    /\ IF NoTweetsFound(twPosts)
       THEN /\ twPc' = "done"
            /\ exitStatus' = 0
            /\ UNCHANGED artifacts
       ELSE /\ artifacts' = Append(artifacts,
                    [platform |-> "twitter", run |-> runs, crawlTime |-> runs,
                     posts |-> twPosts, stoppedReason |-> twStoppedReason])
            /\ twPc' = "written"
            /\ UNCHANGED exitStatus
    /\ UNCHANGED <<stateFile, runs, twSource, twNextId, twLastSeenId, twPosts,
                   twStoppedReason, twCursor, twPageCount, twFetched, twLastPage,
                   twPagesGoOn>>
    /\ UNCHANGED nonTwVars
    /\ UNCHANGED gained

NewestId_oldest(posts) == posts[Len(posts)].id

(* line 128: posts[0].id *)
NewestId(posts) == posts[1].id

(* lines 126-130; crawl() resolves and the process ends *)
TwUpdateState ==
    /\ twPc = "written"
    /\ stateFile' = IF Len(twPosts) > 0
                    THEN updateTwitterState(NewestId(twPosts), runs)
                    ELSE stateFile
    /\ twPc' = "done"
    /\ exitStatus' = 0
    /\ UNCHANGED <<artifacts, runs, twSource, twNextId, twLastSeenId, twPosts,
                   twStoppedReason, twCursor, twPageCount, twFetched, twLastPage,
                   twPagesGoOn>>
    /\ UNCHANGED nonTwVars
    /\ UNCHANGED <<gained, runLog>>

(* Between two runs the list gains one newer tweet at its head *)
TwSourceGains ==
    /\ twPc \in {"done", "failed"}
    /\ runs < MaxRuns
    /\ gained < MaxNew
    /\ gained' = gained + 1
    /\ twSource' = <<twNextId>> \o twSource
    /\ twNextId' = twNextId + 1
    /\ UNCHANGED <<stateFile, artifacts, runs, twPc, twLastSeenId, twPosts,
                   twStoppedReason, twCursor, twPageCount, twFetched, twLastPage,
                   twPagesGoOn>>
    /\ UNCHANGED nonTwVars
    /\ UNCHANGED <<exitStatus, runLog>>

(* crawl() is at pc with its locals as before a run *)
TwAt(pc) ==
    /\ twPc = pc
    /\ twLastSeenId = NoId
    /\ twPosts = <<>>
    /\ twStoppedReason = "api_limit"
    /\ twCursor = NoId
    /\ twPageCount = 0
    /\ twFetched = <<>>
    /\ twLastPage = NoPage
    /\ twPagesGoOn = TRUE

TwIdle == TwAt("idle")

InitTw ==
    /\ artifacts = <<>>
    /\ runs = 0
    /\ gained = 0
    /\ \E n \in {0, 3, TwInitLen} :
        /\ twSource = Descending(n)
        /\ twNextId = n + 1
        /\ \E seen \in 0..n :
            stateFile = [DEFAULT_STATE EXCEPT !.twitter =
                            [lastSeenId |-> seen,
                             lastCrawlTime |-> NoTime]]
    /\ TwIdle

(* The list the watermark tweet was deleted from after the run that       *)
(* persisted its id                                                        *)
WithoutTweet(list, id) ==
    [i \in 1..(Len(list) - 1) |-> IF list[i] > id THEN list[i] ELSE list[i + 1]]

InitTwDeleted ==
    /\ artifacts = <<>>
    /\ runs = 0
    /\ gained = 0
    /\ \E n \in {3, TwInitLen} :
        /\ twNextId = n + 1
        /\ \E seen \in 1..n :
            /\ twSource = WithoutTweet(Descending(n), seen)
            /\ stateFile = [DEFAULT_STATE EXCEPT !.twitter =
                                [lastSeenId |-> seen,
                                 lastCrawlTime |-> NoTime]]
    /\ TwIdle

NextTw ==
    \/ TwStart
    \/ TwPage
    \/ TwFetchThrows
    \/ TwResults
    \/ TwUpdateState
    \/ TwSourceGains

----------------------------------------------------------------------------
(* Characters and texts                                                    *)
(*                                                                         *)
(* A short text (a sender pattern, a URL, an id, a hash) is a sequence of  *)
(* one-character strings. A post's content is kept run-length encoded: a   *)
(* sequence of runs [c |-> character, n |-> repetitions >= 1] in which     *)
(* neighbouring runs differ in c, so that equal contents are equal values. *)

(* The printable ASCII characters, code 32 first; the grave accent (96),   *)
(* which no text of the model contains, is spelled out                     *)
Ascii ==
    <<
      " ", "!", "\"", "#", "$", "%", "&", "'", "(", ")", "*", "+",
      ",", "-", ".", "/", "0", "1", "2", "3", "4", "5", "6", "7",
      "8", "9", ":", ";", "<", "=", ">", "?", "@", "A", "B", "C",
      "D", "E", "F", "G", "H", "I", "J", "K", "L", "M", "N", "O",
      "P", "Q", "R", "S", "T", "U", "V", "W", "X", "Y", "Z", "[",
      "\\", "]", "^", "_", "grave", "a", "b", "c", "d", "e", "f", "g",
      "h", "i", "j", "k", "l", "m", "n", "o", "p", "q", "r", "s",
      "t", "u", "v", "w", "x", "y", "z", "{", "|", "}", "~"
    >>

Tab == "\t"
Newline == "\n"

(* The code units of the two Chinese show-more labels of fb.ts line 90,    *)
(* each written as one character; 0 for any other character               *)
CjkCode(c) ==
    CASE c = "U+67E5" -> 26597
      [] c = "U+770B" -> 30475
      [] c = "U+66F4" -> 26356
      [] c = "U+591A" -> 22810
      [] c = "U+986F" -> 39023
      [] c = "U+793A" -> 31034
      [] OTHER -> 0

(* String.prototype.charCodeAt for one character *)
CharCode(c) ==
    CASE c = Tab -> 9
      [] c = Newline -> 10
      [] CjkCode(c) # 0 -> CjkCode(c)
      [] OTHER -> 31 + (CHOOSE i \in 1..Len(Ascii) : Ascii[i] = c)

IsUpper(c) == c \in {Ascii[i] : i \in 34..59}

IsLetter(c) == c \in {Ascii[i] : i \in (34..59) \cup (66..91)}

IsDigit(c) == c \in {Ascii[i] : i \in 17..26}

(* the regular expression class [a-zA-Z0-9] *)
IsAlnum(c) == IsLetter(c) \/ IsDigit(c)

(* the regular expression class \s *)
IsSpace(c) == c \in {" ", Tab, Newline}

(* String.prototype.toLowerCase on one character *)
LowerChar(c) == IF IsUpper(c) THEN Ascii[CharCode(c) - 31 + 32] ELSE c

(* String.prototype.toLowerCase on a character sequence *)
toLowerCase(text) == [i \in 1..Len(text) |-> LowerChar(text[i])]

Run(c, n) == [c |-> c, n |-> n]

(* Joins two run-length encoded texts *)
RECURSIVE Join(_, _)
Join(s, t) ==
    IF s = <<>> THEN t
    ELSE IF t = <<>> THEN s
    ELSE IF s[Len(s)].c = t[1].c
    THEN SubSeq(s, 1, Len(s) - 1)
         \o <<Run(t[1].c, s[Len(s)].n + t[1].n)>> \o Tail(t)
    ELSE s \o t

(* String.prototype.substring(0, k) *)
RECURSIVE substring(_, _)
substring(t, k) ==
    IF t = <<>> \/ k <= 0 THEN <<>>
    ELSE IF t[1].n >= k THEN <<Run(t[1].c, k)>>
    ELSE <<t[1]>> \o substring(Tail(t), k - t[1].n)

(* String.prototype.trim *)
RECURSIVE trimStart(_)
trimStart(t) ==
    IF t # <<>> /\ IsSpace(t[1].c) THEN trimStart(Tail(t)) ELSE t

RECURSIVE trimEnd(_)
trimEnd(t) ==
    IF t # <<>> /\ IsSpace(t[Len(t)].c) THEN trimEnd(SubSeq(t, 1, Len(t) - 1))
    ELSE t

trim(t) == trimEnd(trimStart(t))

(* String.prototype.replace(/\s+/g, ' ') *)
RECURSIVE CollapseSpaces(_)
CollapseSpaces(t) ==
    IF t = <<>> THEN <<>>
    ELSE IF IsSpace(t[1].c)
    THEN <<Run(" ", 1)>> \o CollapseSpaces(trimStart(t))
    ELSE <<t[1]>> \o CollapseSpaces(Tail(t))

(* String.prototype.toLowerCase on a run-length encoded text *)
RECURSIVE LowerText(_)
LowerText(t) ==
    IF t = <<>> THEN <<>>
    ELSE Join(<<Run(LowerChar(t[1].c), t[1].n)>>, LowerText(Tail(t)))

(* The run-length encoding of a character sequence *)
RECURSIVE Encode(_)
Encode(chars) ==
    IF chars = <<>> THEN <<>>
    ELSE Join(<<Run(chars[1], 1)>>, Encode(Tail(chars)))

----------------------------------------------------------------------------
(* utils.ts createContentHash                                              *)
(*                                                                         *)
(* The 32-bit hash is kept as its two 16-bit halves [hi, lo] of the        *)
(* unsigned value, so that no intermediate result leaves 32 bits.          *)

Half == 65536

(* line 117-118: hash = ((hash << 5) - hash) + char; hash = hash & hash *)
HashStep(h, code) ==
    LET low == h.lo * 31 + code
    IN  [hi |-> (h.hi * 31 + low \div Half) % Half, lo |-> low % Half]

(* lines 115-119 for n equal characters in a row. The n steps are folded   *)
(* half by half, the first half first; after line 118 the value fits 32    *)
(* bits, so that its upper half is below 2^16                              *)
RECURSIVE HashRun(_, _, _)
HashRun(h, code, n) ==
    IF n = 0 THEN h
    ELSE IF n = 1 THEN HashStep(h, code)
    ELSE LET first == HashRun(h, code, n \div 2)
         IN  CASE first.hi < Half -> HashRun(first, code, n - n \div 2)

(* lines 115-119: the loop over normalized, run by run *)
RECURSIVE HashFrom(_, _, _)
HashFrom(normalized, i, h) ==
    IF i > Len(normalized) THEN h
    ELSE HashFrom(normalized, i + 1,
                  HashRun(h, CharCode(normalized[i].c), normalized[i].n))

(* Math.abs of the signed 32-bit value *)
HashAbs(h) ==
    IF h.hi < Half \div 2 THEN h
    ELSE [hi |-> (Half - 1 - h.hi + (IF h.lo = 0 THEN 1 ELSE 0)) % Half,
          lo |-> (Half - h.lo) % Half]

Digits36 ==
    <<
      "0", "1", "2", "3", "4", "5", "6", "7", "8", "9", "a", "b",
      "c", "d", "e", "f", "g", "h", "i", "j", "k", "l", "m", "n",
      "o", "p", "q", "r", "s", "t", "u", "v", "w", "x", "y", "z"
    >>

(* Number.prototype.toString(36) of a non-negative value *)
RECURSIVE ToString36(_)
ToString36(h) ==
    LET rest == (h.hi % 36) * Half + h.lo
        quot == [hi |-> h.hi \div 36, lo |-> rest \div 36]
        digit == <<Digits36[(rest % 36) + 1]>>
    IN  IF quot.hi = 0 /\ quot.lo = 0 THEN digit
        ELSE ToString36(quot) \o digit

HASH_PREFIX_LENGTH == 150

(* lines 107-111 without toLowerCase() *)
Normalized_caseSensitive(content) ==
    substring(trim(CollapseSpaces(content)), HASH_PREFIX_LENGTH)

(* lines 107-111 *)
Normalized(content) ==
    substring(LowerText(trim(CollapseSpaces(content))), HASH_PREFIX_LENGTH)

(* utils.ts createContentHash *)
createContentHash(content) ==
    <<"h">> \o ToString36(HashAbs(HashFrom(Normalized(content), 1,
                                           [hi |-> 0, lo |-> 0])))

----------------------------------------------------------------------------
(* Facebook post ids and the seen-set (utils.ts)                           *)

(* null, and the empty string: both falsy *)
null == <<>>

(* Array.prototype.slice(i) on a character sequence, i counted from 1 *)
From(s, i) == SubSeq(s, i, Len(s))

(* String.prototype.startsWith at position i *)
StartsWithAt(s, i, pat) ==
    /\ i + Len(pat) - 1 <= Len(s)
    /\ SubSeq(s, i, i + Len(pat) - 1) = pat

(* The character classes of the three patterns: [a-zA-Z0-9] and \d *)
InClass(c, class) ==
    CASE class = "alnum" -> IsAlnum(c)
      [] class = "digit" -> IsDigit(c)

(* The longest prefix of s whose characters are all in class: the greedy   *)
(* match of a character class repeated                                     *)
Greedy(s, class) ==
    LET stops == {i \in 1..Len(s) : ~InClass(s[i], class)}
    IN  IF stops = {} THEN s
        ELSE SubSeq(s, 1, (CHOOSE i \in stops : \A j \in stops : i <= j) - 1)

(* String.prototype.match(/lead(class+)/): the capture group of the        *)
(* leftmost match, null when there is no match                             *)
MatchGroup(url, lead, class) ==
    LET starts == {i \in 1..Len(url) :
                     /\ StartsWithAt(url, i, lead)
                     /\ Greedy(From(url, i + Len(lead)), class) # <<>>}
    IN  IF starts = {} THEN null
        ELSE LET first == CHOOSE i \in starts : \A j \in starts : i <= j
             IN  Greedy(From(url, first + Len(lead)), class)

PFBID ==
    <<"p", "f", "b", "i", "d">>

STORY_FBID ==
    <<"s", "t", "o", "r", "y", "_", "f", "b", "i", "d", "=">>

POSTS_PATH ==
    <<"/", "p", "o", "s", "t", "s", "/">>

STORY_PREFIX ==
    <<"s", "t", "o", "r", "y", "_">>

POST_PREFIX ==
    <<"p", "o", "s", "t", "_">>

PFBID_LENGTH == 20

(* extractFacebookPostId trying the /posts/ id before the story_fbid *)
extractFacebookPostId_postsFirst(url) ==
    LET pfbidMatch == MatchGroup(url, PFBID, "alnum")
        storyMatch == MatchGroup(url, STORY_FBID, "digit")
        postsMatch == MatchGroup(url, POSTS_PATH, "digit")
    IN  IF url = <<>> THEN null
        ELSE IF pfbidMatch # null
        THEN PFBID \o SubSeq(pfbidMatch, 1, Min(PFBID_LENGTH, Len(pfbidMatch)))
        ELSE IF postsMatch # null THEN POST_PREFIX \o postsMatch
        ELSE IF storyMatch # null THEN STORY_PREFIX \o storyMatch
        ELSE null

(* utils.ts extractFacebookPostId *)
extractFacebookPostId(url) ==
    LET pfbidMatch == MatchGroup(url, PFBID, "alnum")
        storyMatch == MatchGroup(url, STORY_FBID, "digit")
        postsMatch == MatchGroup(url, POSTS_PATH, "digit")
    IN  IF url = <<>> THEN null
        ELSE IF pfbidMatch # null
        THEN PFBID \o SubSeq(pfbidMatch, 1, Min(PFBID_LENGTH, Len(pfbidMatch)))
        ELSE IF storyMatch # null THEN STORY_PREFIX \o storyMatch
        ELSE IF postsMatch # null THEN POST_PREFIX \o postsMatch
        ELSE null

(* isPostSeen with the id comparison of line 132 loosened to a prefix test *)
isPostSeen_byPrefix(postId, contentHash, seenPosts) ==
    \E i \in 1..Len(seenPosts) :
        \/ /\ postId # null
           /\ seenPosts[i].postId # null
           /\ StartsWithAt(postId, 1, seenPosts[i].postId)
        \/ contentHash = seenPosts[i].contentHash

(* isPostSeen without the content hash comparison of line 135 *)
isPostSeen_idOnly(postId, contentHash, seenPosts) ==
    \E i \in 1..Len(seenPosts) :
        /\ postId # null
        /\ seenPosts[i].postId # null
        /\ postId = seenPosts[i].postId

(* isPostSeen without the truthiness tests of line 131 *)
isPostSeen_nullMatches(postId, contentHash, seenPosts) ==
    \E i \in 1..Len(seenPosts) :
        \/ postId = seenPosts[i].postId
        \/ contentHash = seenPosts[i].contentHash

(* utils.ts isPostSeen *)
isPostSeen(postId, contentHash, seenPosts) ==
    \E i \in 1..Len(seenPosts) :
        \/ /\ postId # null
           /\ seenPosts[i].postId # null
           /\ postId = seenPosts[i].postId
        \/ contentHash = seenPosts[i].contentHash

MAX_SEEN_POSTS == 10

(* utils.ts updateFacebookState, lines 148-151 *)
SeenPostOf(post) ==
    [postId |-> extractFacebookPostId(post.url),
     contentHash |-> createContentHash(post.content)]

(* updateFacebookState with the new entries put behind the window *)
updateFacebookState_oldFirst(posts, now) ==
    LET newSeenPosts == [i \in 1..Len(posts) |-> SeenPostOf(posts[i])]
        merged == readCrawlState.facebook.lastSeenPosts \o newSeenPosts
    IN  [readCrawlState EXCEPT !.facebook =
            [lastSeenPosts |-> Slice(merged, MAX_SEEN_POSTS),
             lastCrawlTime |-> now]]

(* utils.ts updateFacebookState, lines 148-159: the document written when *)
(* readCrawlState returned state                                           *)
(* utils.ts lines 11-17: the facebook section holds the optional field    *)
(* lastSeenPosts (a document written before the window was introduced      *)
(* holds lastSeenUrl instead)                                              *)
HasWindow(state) == "lastSeenPosts" \in DOMAIN state.facebook

(* utils.ts line 149: the spread of state.facebook.lastSeenPosts throws a  *)
(* TypeError when the field is undefined                                   *)
UpdateFacebookThrows(state) == ~HasWindow(state)

FacebookStateFrom(state, posts, now) ==
    LET newSeenPosts == [i \in 1..Len(posts) |-> SeenPostOf(posts[i])]
        merged == newSeenPosts \o state.facebook.lastSeenPosts
    IN  [state EXCEPT !.facebook =
            [lastSeenPosts |-> Slice(merged, MAX_SEEN_POSTS),
             lastCrawlTime |-> now]]

(* utils.ts updateFacebookState: the document after the call *)
updateFacebookState(posts, now) ==
    FacebookStateFrom(readCrawlState, posts, now)

----------------------------------------------------------------------------
(* utils.ts updateGmailState                                               *)

MAX_GMAIL_SEEN_IDS_PER_SENDER == 5

EmailIds(emails) == [i \in 1..Len(emails) |-> emails[i].id]

(* seenIdsBySender[key] || [] *)
SeenIdsOf(seenIdsBySender, key) ==
    IF key \in DOMAIN seenIdsBySender THEN seenIdsBySender[key] ELSE <<>>

(* MergeSender with the new ids put behind the window *)
MergeSender_oldFirst(seenIdsBySender, senderPattern, emails) ==
    LET normalizedSender == toLowerCase(senderPattern)
        merged == Slice(SeenIdsOf(seenIdsBySender, normalizedSender) \o EmailIds(emails),
                        MAX_GMAIL_SEEN_IDS_PER_SENDER)
    IN  [k \in DOMAIN seenIdsBySender \cup {normalizedSender} |->
            IF k = normalizedSender THEN merged ELSE seenIdsBySender[k]]

(* lines 297-305: one iteration of the loop over the Map entries *)
MergeSender(seenIdsBySender, senderPattern, emails) ==
    LET normalizedSender == toLowerCase(senderPattern)
        merged == Slice(EmailIds(emails) \o SeenIdsOf(seenIdsBySender, normalizedSender),
                        MAX_GMAIL_SEEN_IDS_PER_SENDER)
    IN  [k \in DOMAIN seenIdsBySender \cup {normalizedSender} |->
            IF k = normalizedSender THEN merged ELSE seenIdsBySender[k]]

RECURSIVE MergeAllSenders(_, _)
MergeAllSenders(seenIdsBySender, entries) ==
    IF entries = <<>> THEN seenIdsBySender
    ELSE MergeAllSenders(
            MergeSender(seenIdsBySender, entries[1].sender, entries[1].emails),
            Tail(entries))

(* utils.ts updateGmailState, lines 291-309: the document written when    *)
(* readCrawlState returned state                                           *)
GmailStateFrom(state, emailsBySender, now) ==
    [state EXCEPT !.gmail =
        [seenIdsBySender |->
            MergeAllSenders(state.gmail.seenIdsBySender, emailsBySender),
         lastCrawlTime |-> now]]

(* utils.ts updateGmailState: the document after the call *)
updateGmailState(emailsBySender, now) ==
    GmailStateFrom(readCrawlState, emailsBySender, now)

----------------------------------------------------------------------------
(* gmail.ts crawlSender() and crawlNewsletters()                           *)

(* The GmailEmail built by fetchEmail (lines 295-315); the fields other    *)
(* than the id are copied payload.                                         *)
GmailEmail(id) == [id |-> id]

IsSeenEmail_never(id, seenIds) == FALSE

(* line 347: seenSet.has(msg.id) *)
IsSeenEmail(id, seenIds) == id \in Range(seenIds)

CapReached_late(n, maxEmails) == n > maxEmails

(* line 358: emails.length >= config.maxEmails *)
CapReached(n, maxEmails) == n >= maxEmails

DefaultSenderReason_apiLimit == "api_limit"

(* line 330: stoppedReason before the loop *)
DefaultSenderReason == "query_exhausted"

(* line 332: the while condition *)
BelowCap(n, maxEmails) == n < maxEmails

(* The for-loop over one page (lines 343-362), from message i on. throwAt  *)
(* is the index of the message whose fetchEmail throws (0: none does).     *)
(* outcome: "next" the loop ran to its end, "reached_previous" and         *)
(* "scroll_limit" the two return statements, "throws" fetchEmail threw.    *)
RECURSIVE ScanMessages(_, _, _, _, _, _, _)
ScanMessages(messages, i, emails, fetched, seenIds, maxEmails, throwAt) ==
    IF i > Len(messages)
    THEN [emails |-> emails, fetched |-> fetched, outcome |-> "next"]
    ELSE IF messages[i] = NoId
    THEN ScanMessages(messages, i + 1, emails, fetched, seenIds, maxEmails, throwAt)
    ELSE IF IsSeenEmail(messages[i], seenIds)
    THEN [emails |-> emails, fetched |-> fetched, outcome |-> "reached_previous"]
    ELSE IF i = throwAt
    THEN [emails |-> emails, fetched |-> Append(fetched, messages[i]),
          outcome |-> "throws"]
    ELSE IF CapReached(Len(emails) + 1, maxEmails)
    THEN [emails |-> Append(emails, GmailEmail(messages[i])),
          fetched |-> Append(fetched, messages[i]), outcome |-> "scroll_limit"]
    ELSE ScanMessages(messages, i + 1, Append(emails, GmailEmail(messages[i])),
                      Append(fetched, messages[i]), seenIds, maxEmails, throwAt)

(* Map.prototype.set *)
MapSet(map, key, value) ==
    IF \E i \in 1..Len(map) : map[i].sender = key
    THEN [i \in 1..Len(map) |->
            IF map[i].sender = key THEN [sender |-> key, emails |-> value]
            ELSE map[i]]
    ELSE Append(map, [sender |-> key, emails |-> value])

(* No page was listed yet *)
NoMessages == [messages |-> <<>>, next |-> NoId]

(* The locals of crawlSender outside a call *)
GmNoSubRun ==
    /\ gmSeenIds' = <<>>
    /\ gmEmails' = <<>>
    /\ gmPageToken' = NoId
    /\ gmStoppedReason' = DefaultSenderReason
    /\ gmListed' = <<>>
    /\ gmLastPage' = NoMessages
    /\ gmListCount' = 0
    /\ gmFetched' = <<>>

GmSender == gmConfig.allowedSenders[gmIdx]

(* The mailbox answers a query from:sender without regard to letter case *)
GmListing == gmSource[toLowerCase(GmSender)]

GmAfterSender == IF gmIdx < Len(gmConfig.allowedSenders) THEN "sender" ELSE "finish"

(* A crawlSender call that ended: the index of its sender, whether it     *)
(* rejected ("threw") or returned scroll_limit, and whether it held emails *)
SubRun(idx, reason, emails) ==
    [sender |-> idx, threw |-> reason = "threw",
     capped |-> reason = "scroll_limit", held |-> emails # <<>>]

(* lines 372-382 *)
GmStart ==
    /\ gmPc \in {"idle", "done"}
    /\ runs < MaxRuns
    /\ runs' = runs + 1
    /\ gmSeenIdsBySender' = readCrawlState.gmail.seenIdsBySender
    /\ gmAllEmails' = <<>>
    /\ gmEmailsBySender' = <<>>
    /\ gmFinalStoppedReason' = "query_exhausted"
    /\ gmIdx' = 1
    /\ gmSubRuns' = <<>>
    /\ RunStarts
    /\ gmPc' = IF Len(gmConfig.allowedSenders) = 0 THEN "finish" ELSE "sender"
    /\ UNCHANGED <<stateFile, artifacts, gmConfig, gmSource, gmNextId, gmSeenIds,
                   gmEmails, gmPageToken, gmStoppedReason, gmListed, gmLastPage,
                   gmListCount, gmFetched>>
    /\ UNCHANGED nonGmVars
    /\ UNCHANGED gained

(* lines 385-398 and 323-332: enter crawlSender for the next sender *)
GmCrawlSender ==
    /\ gmPc = "sender"
    /\ gmSeenIds' = SeenIdsOf(gmSeenIdsBySender, toLowerCase(GmSender))
    /\ gmEmails' = <<>>
    /\ gmPageToken' = NoId
    /\ gmStoppedReason' = DefaultSenderReason
    /\ gmListed' = <<>>
    /\ gmLastPage' = NoMessages
    /\ gmListCount' = 0
    /\ gmFetched' = <<>>
    /\ gmPc' = IF BelowCap(0, gmConfig.maxEmails) THEN "list" ELSE "return"
    /\ UNCHANGED <<stateFile, artifacts, runs, gmConfig, gmSource, gmNextId,
                   gmSeenIdsBySender, gmIdx, gmAllEmails, gmEmailsBySender,
                   gmFinalStoppedReason>>
    /\ UNCHANGED nonGmVars
    /\ UNCHANGED <<gained, exitStatus, runLog, gmSubRuns>>

(* One iteration of the while loop of crawlSender (lines 332-366). The     *)
(* mailbox answers the list call at pageToken with the next k entries of   *)
(* the listing (k may be 0) and with or without a next page token.         *)
GmListPage ==
    /\ gmPc = "list"
    /\ \E k \in 0..Min(GmPageMax, Len(GmListing) - gmPageToken),
          hasNext \in BOOLEAN, throwAt \in 0..GmPageMax :
        LET messages == SubSeq(GmListing, gmPageToken + 1, gmPageToken + k)
            next == IF hasNext THEN gmPageToken + k ELSE NoId
            scan == ScanMessages(messages, 1, gmEmails, gmFetched, gmSeenIds,
                                 gmConfig.maxEmails, throwAt)
        IN  /\ throwAt <= k
            /\ gmListed' = gmListed \o messages
            /\ gmLastPage' = [messages |-> messages, next |-> next]
            /\ gmListCount' = gmListCount + 1
            /\ IF Len(messages) = 0
               THEN /\ gmPc' = "return"
                    /\ UNCHANGED <<gmEmails, gmFetched, gmStoppedReason, gmPageToken>>
               ELSE /\ gmEmails' = scan.emails
                    /\ gmFetched' = scan.fetched
                    /\ gmStoppedReason' =
                            IF scan.outcome \in {"reached_previous", "scroll_limit"}
                            THEN scan.outcome ELSE gmStoppedReason
                    /\ gmPageToken' = IF scan.outcome = "next" THEN next
                                      ELSE gmPageToken
                    /\ gmPc' = CASE scan.outcome = "throws" -> "caught"
                                 [] scan.outcome = "next" /\ next # NoId
                                    /\ BelowCap(Len(scan.emails), gmConfig.maxEmails)
                                    -> "list"
                                 [] OTHER -> "return"
    /\ UNCHANGED <<stateFile, artifacts, runs, gmConfig, gmSource, gmNextId,
                   gmSeenIdsBySender, gmIdx, gmAllEmails, gmEmailsBySender,
                   gmFinalStoppedReason, gmSeenIds>>
    /\ UNCHANGED nonGmVars
    /\ UNCHANGED <<gained, exitStatus, runLog, gmSubRuns>>

(* line 333 throws: crawlSender rejects *)
GmListThrows ==
    /\ gmPc = "list"
    /\ gmPc' = "caught"
    /\ UNCHANGED <<stateFile, artifacts, runs, gmConfig, gmSource, gmNextId,
                   gmSeenIdsBySender, gmIdx, gmAllEmails, gmEmailsBySender,
                   gmFinalStoppedReason, gmSeenIds, gmEmails, gmPageToken,
                   gmStoppedReason, gmListed, gmLastPage,
                   gmListCount, gmFetched>>
    /\ UNCHANGED nonGmVars
    /\ UNCHANGED <<gained, exitStatus, runLog, gmSubRuns>>

FinalReason_last(finalStoppedReason, stoppedReason) ==
    IF stoppedReason = "scroll_limit" THEN "scroll_limit" ELSE "query_exhausted"

(* lines 404-407: finalStoppedReason after a sender's sub-run returned *)
FinalReason(finalStoppedReason, stoppedReason) ==
    IF stoppedReason = "scroll_limit" THEN "scroll_limit" ELSE finalStoppedReason

(* lines 400-407: crawlSender returned *)
GmSenderReturned ==
    /\ gmPc = "return"
    /\ gmAllEmails' = gmAllEmails \o gmEmails
    /\ gmEmailsBySender' = MapSet(gmEmailsBySender, GmSender, gmEmails)
    /\ gmFinalStoppedReason' = FinalReason(gmFinalStoppedReason, gmStoppedReason)
    /\ gmSubRuns' = Append(gmSubRuns, SubRun(gmIdx, gmStoppedReason, gmEmails))
    /\ gmIdx' = gmIdx + 1
    /\ gmPc' = GmAfterSender
    /\ GmNoSubRun
    /\ UNCHANGED <<stateFile, artifacts, runs, gmConfig, gmSource, gmNextId,
                   gmSeenIdsBySender>>
    /\ UNCHANGED nonGmVars
    /\ UNCHANGED <<gained, exitStatus, runLog>>

KeptAfterThrow_partial(emails) == emails

(* lines 392-410: what allEmails gains from a sub-run that threw; the      *)
(* pushes of lines 401-402 are skipped                                     *)
KeptAfterThrow(emails) == <<>>

(* lines 408-410: crawlSender threw, the error is logged *)
GmSenderFailed ==
    /\ gmPc = "caught"
    /\ gmAllEmails' = gmAllEmails \o KeptAfterThrow(gmEmails)
    /\ gmSubRuns' = Append(gmSubRuns, SubRun(gmIdx, "threw", gmEmails))
    /\ gmIdx' = gmIdx + 1
    /\ gmPc' = GmAfterSender
    /\ GmNoSubRun
    /\ UNCHANGED <<stateFile, artifacts, runs, gmConfig, gmSource, gmNextId,
                   gmSeenIdsBySender, gmEmailsBySender,
                   gmFinalStoppedReason>>
    /\ UNCHANGED nonGmVars
    /\ UNCHANGED <<gained, exitStatus, runLog>>

(* lines 413-417 and 424-428; without emails crawlNewsletters() resolves   *)
(* and line 447 exits                                                      *)
GmUpdateState ==
    /\ gmPc = "finish"
    /\ IF Len(gmAllEmails) > 0
       THEN /\ stateFile' = updateGmailState(gmEmailsBySender, runs)
            /\ gmPc' = "updated"
            /\ UNCHANGED exitStatus
       ELSE /\ gmPc' = "done"
            /\ exitStatus' = 0
            /\ UNCHANGED stateFile
    /\ RunHolds(Len(gmAllEmails))
    /\ UNCHANGED <<artifacts, runs, gmConfig, gmSource, gmNextId,
                   gmSeenIdsBySender, gmIdx, gmAllEmails, gmEmailsBySender,
                   gmFinalStoppedReason, gmSeenIds, gmEmails, gmPageToken,
                   gmStoppedReason, gmListed, gmLastPage,
                   gmListCount, gmFetched>>
    /\ UNCHANGED nonGmVars
    /\ UNCHANGED <<gained, gmSubRuns>>

(* lines 419-423 and 428; crawlNewsletters() resolves and line 447 exits *)
GmWriteMD ==
    /\ gmPc = "updated"
    /\ artifacts' = Append(artifacts,
            [platform |-> "gmail", run |-> runs, crawlTime |-> runs,
             posts |-> gmAllEmails, stoppedReason |-> gmFinalStoppedReason])
    /\ gmPc' = "done"
    /\ exitStatus' = 0
    /\ UNCHANGED <<stateFile, runs, gmConfig, gmSource, gmNextId,
                   gmSeenIdsBySender, gmIdx, gmAllEmails, gmEmailsBySender,
                   gmFinalStoppedReason, gmSeenIds, gmEmails, gmPageToken,
                   gmStoppedReason, gmListed, gmLastPage,
                   gmListCount, gmFetched>>
    /\ UNCHANGED nonGmVars
    /\ UNCHANGED <<gained, runLog, gmSubRuns>>

(* Between two runs a sender's mailbox gains one newer message at its head *)
GmSourceGains ==
    /\ gmPc = "done"
    /\ runs < MaxRuns
    /\ gained < MaxNew
    /\ gained' = gained + 1
    /\ \E key \in DOMAIN gmSource :
        gmSource' = [gmSource EXCEPT ![key] = <<gmNextId>> \o @]
    /\ gmNextId' = gmNextId + 1
    /\ UNCHANGED <<stateFile, artifacts, runs, gmConfig, gmPc, gmSeenIdsBySender,
                   gmIdx, gmAllEmails, gmEmailsBySender, gmFinalStoppedReason,
                   gmSeenIds, gmEmails, gmPageToken, gmStoppedReason, gmListed, gmLastPage,
                   gmListCount,
                   gmFetched>>
    /\ UNCHANGED nonGmVars
    /\ UNCHANGED <<exitStatus, runLog, gmSubRuns>>

SenderA == <<"a", "x">>
SenderUpperA == <<"A", "x">>
SenderB == <<"b", "x">>

(* crawlNewsletters() is at pc with its locals as before a run *)
GmAt(pc) ==
    /\ gmPc = pc
    /\ gmSeenIdsBySender = [k \in {} |-> <<>>]
    /\ gmIdx = 1
    /\ gmAllEmails = <<>>
    /\ gmEmailsBySender = <<>>
    /\ gmFinalStoppedReason = "query_exhausted"
    /\ gmSeenIds = <<>>
    /\ gmEmails = <<>>
    /\ gmPageToken = NoId
    /\ gmStoppedReason = "query_exhausted"
    /\ gmListed = <<>>
    /\ gmLastPage = NoMessages
    /\ gmListCount = 0
    /\ gmFetched = <<>>
    /\ gmSubRuns = <<>>

GmIdle == GmAt("idle")

(* No Gmail crawl takes part *)
GmAbsent ==
    /\ gmConfig = [allowedSenders |-> <<>>, maxEmails |-> 0]
    /\ gmSource = [k \in {} |-> <<>>]
    /\ gmNextId = 1
    /\ GmAt("absent")

(* A listing of n messages, newest first, the second entry without an id   *)
(* when blank.                                                             *)
InitListing(n, blank) ==
    IF blank /\ n >= 1
    THEN <<n>> \o <<NoId>> \o [i \in 1..(n - 1) |-> n - i]
    ELSE Descending(n)

InitGm ==
    /\ artifacts = <<>>
    /\ runs = 0
    /\ gained = 0
    /\ \E senders \in {<<SenderA>>, <<SenderUpperA, SenderB>>},
          maxEmails \in 0..GmMaxEmails :
        gmConfig = [allowedSenders |-> senders, maxEmails |-> maxEmails]
    /\ \E n \in {0, GmInitLen}, blank \in BOOLEAN :
        /\ gmSource = [k \in {SenderA, SenderB} |->
                        IF k = SenderA THEN InitListing(n, blank)
                        ELSE <<GmInitLen + 2, GmInitLen + 1>>]
        /\ gmNextId = GmInitLen + 3
        /\ \E w \in 0..Min(n, MAX_GMAIL_SEEN_IDS_PER_SENDER) :
            stateFile = [DEFAULT_STATE EXCEPT !.gmail =
                [seenIdsBySender |->
                    IF w = 0 THEN [k \in {} |-> <<>>]
                    ELSE [k \in {SenderA} |-> Descending(w)],
                 lastCrawlTime |-> NoTime]]
    /\ GmIdle

(* A mailbox whose listing for the one configured sender starts with      *)
(* entries without an id (gmail.ts line 344: if (!msg.id) continue)        *)
InitGmBlank ==
    /\ artifacts = <<>>
    /\ runs = 0
    /\ gained = 0
    /\ stateFile = DEFAULT_STATE
    /\ \E maxEmails \in 1..GmMaxEmails :
        gmConfig = [allowedSenders |-> <<SenderA>>, maxEmails |-> maxEmails]
    /\ \E blanks \in 1..GmBlankMax :
        gmSource = [k \in {SenderA, SenderB} |->
                        IF k = SenderA
                        THEN [i \in 1..blanks |-> NoId] \o Descending(GmInitLen)
                        ELSE <<>>]
    /\ gmNextId = GmInitLen + 3
    /\ GmIdle

(* A configuration listing one sender twice, in two spellings that differ  *)
(* only in letter case: both queries match the same messages (a from:      *)
(* search does not distinguish case), and line 389 looks both patterns up  *)
(* under one key                                                           *)
InitGmCase ==
    /\ artifacts = <<>>
    /\ runs = 0
    /\ gained = 0
    /\ \E maxEmails \in 1..GmMaxEmails :
        gmConfig = [allowedSenders |-> <<SenderUpperA, SenderA>>,
                    maxEmails |-> maxEmails]
    /\ \E n \in {1, GmInitLen} :
        /\ gmSource = [k \in {SenderA, SenderB} |->
                        IF k = SenderA THEN Descending(n) ELSE <<>>]
        /\ gmNextId = GmInitLen + 3
        /\ \E w \in 0..Min(n - 1, MAX_GMAIL_SEEN_IDS_PER_SENDER) :
            stateFile = [DEFAULT_STATE EXCEPT !.gmail =
                [seenIdsBySender |->
                    IF w = 0 THEN [k \in {} |-> <<>>]
                    ELSE [k \in {SenderA} |-> Descending(w)],
                 lastCrawlTime |-> NoTime]]
    /\ GmIdle

NextGm ==
    \/ GmStart
    \/ GmCrawlSender
    \/ GmListPage
    \/ GmListThrows
    \/ GmSenderReturned
    \/ GmSenderFailed
    \/ GmUpdateState
    \/ GmWriteMD
    \/ GmSourceGains


----------------------------------------------------------------------------
(* fb.ts extractPosts() and crawl()                                        *)

(* line 90: the alternatives of /查看更多|See more|顯示更多/ *)
SHOW_MORE_LABELS ==
    << Encode(<<"U+67E5", "U+770B", "U+66F4", "U+591A">>),
       Encode(<<"S", "e", "e", " ", "m", "o", "r", "e">>),
       Encode(<<"U+986F", "U+793A", "U+66F4", "U+591A">>) >>

(* The label occurs in t, its first character being the last one of t's    *)
(* first run (every label starts with a character it does not repeat)      *)
LabelAtHead(t, label) ==
    LET m == Len(label)
    IN  /\ Len(t) >= m
        /\ t[1].c = label[1].c
        /\ \A k \in 2..(m - 1) : t[k] = label[k]
        /\ t[m].c = label[m].c
        /\ t[m].n >= label[m].n

(* t without the occurrence of label found by LabelAtHead: what precedes   *)
(* the occurrence, and what follows it                                     *)
BeforeLabel(t) == IF t[1].n > 1 THEN <<Run(t[1].c, t[1].n - 1)>> ELSE <<>>

AfterLabel(t, label) ==
    LET m == Len(label)
        left == t[m].n - label[m].n
    IN  (IF left > 0 THEN <<Run(t[m].c, left)>> ELSE <<>>)
        \o SubSeq(t, m + 1, Len(t))

(* line 90: String.prototype.replace(/查看更多|See more|顯示更多/g, '') *)
RECURSIVE StripLabels(_)
StripLabels(t) ==
    LET found == {i \in 1..Len(SHOW_MORE_LABELS) :
                    LabelAtHead(t, SHOW_MORE_LABELS[i])}
    IN  IF t = <<>> THEN <<>>
        ELSE IF found # {}
        THEN LET label == SHOW_MORE_LABELS[CHOOSE i \in found : TRUE]
             IN  Join(BeforeLabel(t), StripLabels(AfterLabel(t, label)))
        ELSE Join(<<t[1]>>, StripLabels(Tail(t)))

(* line 90 *)
CleanContent(content) == trim(StripLabels(content))

CONTENT_KEY_LENGTH == 100

POST_CONTENT_LENGTH == 500

(* line 94 *)
ContentKey(cleanContent) == substring(cleanContent, CONTENT_KEY_LENGTH)

(* line 24: Number(process.env.FB_MAX_SCROLL) || 50 *)
MAX_SCROLL(env) == IF env = 0 THEN 50 ELSE env

HTTP ==
    <<"h", "t", "t", "p">>

FACEBOOK_ORIGIN ==
    <<"h", "t", "t", "p", "s", ":", "/", "/", "w", "w", "w", ".", "f", "a",
      "c", "e", "b", "o", "o", "k", ".", "c", "o", "m">>

UNKNOWN_AUTHOR ==
    <<"U", "n", "k", "n", "o", "w", "n">>

(* line 118 *)
AbsoluteUrl(href) ==
    IF href = <<>> THEN <<>>
    ELSE IF StartsWithAt(href, 1, HTTP) THEN href
    ELSE FACEBOOK_ORIGIN \o href

(* lines 107-121: author and url of an element; detached: no ancestor with *)
(* a profile name was found                                                *)
AuthorOf(el, detached) == IF detached THEN Encode(UNKNOWN_AUTHOR) ELSE el.author

UrlOf(el, detached) == IF detached THEN <<>> ELSE AbsoluteUrl(el.href)

(* lines 134-138 *)
FacebookPost(author, cleanContent, url) ==
    [author |-> trim(author),
     content |-> substring(cleanContent, POST_CONTENT_LENGTH),
     url |-> url]

(* line 127 *)
ReachedPrevious(postId, contentHash, seenPosts) ==
    Len(seenPosts) > 0 /\ isPostSeen(postId, contentHash, seenPosts)

(* The for-loop over storyMessages (lines 87-144), from element i on. The  *)
(* element at position bad misbehaves: "noText" (innerText rejects, line   *)
(* 89), "throws" (evaluateHandle rejects, line 98) or "detached" (no       *)
(* container, line 109); bad = 0: none does. innerText rejecting leaves an *)
(* empty text (line 89), which line 92 skips.                              *)
(* The story elements the feed can show *)
X_URL ==
    <<"h", "t", "t", "p", "s", ":", "/", "/", "w", "w", "w", ".", "f", "a",
      "c", "e", "b", "o", "o", "k", ".", "c", "o", "m", "/", "a", "n", "n",
      "/", "p", "o", "s", "t", "s", "/", "p", "f", "b", "i", "d", "0", "2",
      "F", "A", "x", "x", "S", "w", "s", "s", "m", "b", "d", "o", "Q", "J",
      "v", "a", "A", "w", "M", "Y", "U", "R", "1", "f">>

StoryX ==
    [innerText |-> Encode(<<"X">>), href |-> X_URL,
     author |-> Encode(<<"A", "n", "n">>)]

StoryY ==
    [innerText |-> Encode(<<"Y">>), href |-> <<>>,
     author |-> Encode(<<"B", "o", "b", " ">>)]

(* a text of 601 characters, mostly line breaks, without a link *)
StoryLong ==
    [innerText |-> <<Run("a", 1), Run(Newline, 400), Run("b", 200)>>,
     href |-> <<>>, author |-> Encode(<<"A", "n", "n">>)]

(* a collapsed text with its show-more label and a relative link *)
StoryZ ==
    [innerText |-> Encode(<<"Z", " ", "z", "S", "e", "e", " ", "m", "o", "r",
                            "e">>),
     href |->
        <<"/", "z", "e", "d", "/", "p", "o", "s", "t", "s", "/", "9", "8",
          "7">>,
     author |-> Encode(<<"B", "o", "b", " ">>)]

Stories == <<StoryX, StoryY, StoryLong, StoryZ>>

(* The values lines 89-138 derive from an element whose text was read:     *)
(* cleanContent, contentKey, url, postId, contentHash and the post built   *)
Extracted(el, detached) ==
    LET cleanContent == CleanContent(el.innerText)
        url == UrlOf(el, detached)
    IN  [cleanContent |-> cleanContent,
         contentKey |-> ContentKey(cleanContent),
         url |-> url,
         postId |-> extractFacebookPostId(url),
         contentHash |-> createContentHash(cleanContent),
         post |-> FacebookPost(AuthorOf(el, detached), cleanContent, url)]

(* Extracted, evaluated once for every story *)
ExtractedOf ==
    [el \in Range(Stories), detached \in BOOLEAN |-> Extracted(el, detached)]

(* line 95 without the test: every visible element counts as new *)
AlreadyCaptured_never(contentKey, seenContent) == FALSE

(* line 95: seenContent.has(contentKey) *)
AlreadyCaptured(contentKey, seenContent) == contentKey \in seenContent

(* the catch block ending the loop over the n elements of the batch *)
ResumeAfterCatch_break(i, n) == n + 1

(* lines 141-143: catch { continue; } resumes with the element after i *)
ResumeAfterCatch(i, n) == i + 1

RECURSIVE ScanStories(_, _, _, _, _, _, _, _)
ScanStories(batch, i, posts, seenContent, checked, seenPosts, bad, kind) ==
    IF i > Len(batch)
    THEN [posts |-> posts, seenContent |-> seenContent, checked |-> checked,
          reached |-> FALSE, read |-> Len(batch), threw |-> {}]
    ELSE
      LET el == batch[i]
          noText == bad = i /\ kind = "noText"
          f == ExtractedOf[el, bad = i /\ kind = "detached"]
          entry == [postId |-> f.postId, contentHash |-> f.contentHash]
      IN  IF \/ noText
             \/ f.cleanContent = <<>>
             \/ AlreadyCaptured(f.contentKey, seenContent)
          THEN ScanStories(batch, i + 1, posts, seenContent, checked,
                           seenPosts, bad, kind)
          ELSE IF bad = i /\ kind = "throws"
          THEN [ScanStories(batch, ResumeAfterCatch(i, Len(batch)), posts,
                            seenContent \cup {f.contentKey}, checked,
                            seenPosts, bad, kind) EXCEPT !.threw = {i}]
          ELSE IF ReachedPrevious(f.postId, f.contentHash, seenPosts)
          THEN [posts |-> posts,
                seenContent |-> seenContent \cup {f.contentKey},
                checked |-> Append(checked, entry), reached |-> TRUE,
                read |-> i, threw |-> {}]
          ELSE ScanStories(batch, i + 1, Append(posts, f.post),
                           seenContent \cup {f.contentKey},
                           Append(checked, entry), seenPosts, bad, kind)

(* line 77: the alternatives of the selector of the show-more buttons *)
SHOW_MORE_BUTTONS == SubSeq(SHOW_MORE_LABELS, 1, 2)

(* The text t shows a button label *)
HasButton(t) ==
    \E k \in 1..Len(t), b \in 1..Len(SHOW_MORE_BUTTONS) :
        LabelAtHead(SubSeq(t, k, Len(t)), SHOW_MORE_BUTTONS[b])

IsElement(i) == i > 0

(* line 77: page.$$ of the buttons, as the positions of the collapsed      *)
(* elements of the batch                                                   *)
ShowMoreButtons(batch) ==
    SelectSeq([i \in 1..Len(batch) |->
                  IF HasButton(batch[i].innerText) THEN i ELSE 0], IsElement)

PageCall(op, el) == [op |-> op, el |-> el]

(* the elements read first and the buttons clicked afterwards *)
StepOps_readFirst(buttons, read, scrolled) ==
    [k \in 1..read |-> PageCall("innerText", k)]
    \o [k \in 1..Len(buttons) |-> PageCall("click", buttons[k])]
    \o (IF scrolled THEN <<PageCall("scrollBy", 0)>> ELSE <<>>)

(* The page calls of one iteration of outerLoop: btn.click() for every     *)
(* button (lines 78-81), storyEl.innerText() for the elements up to the    *)
(* last one the loop of line 87 reaches (line 89), window.scrollBy unless  *)
(* line 131 left the loop (line 146)                                       *)
StepOps(buttons, read, scrolled) ==
    [k \in 1..Len(buttons) |-> PageCall("click", buttons[k])]
    \o [k \in 1..read |-> PageCall("innerText", k)]
    \o (IF scrolled THEN <<PageCall("scrollBy", 0)>> ELSE <<>>)

(* The locals of crawl() and extractPosts() outside a run *)
FbNoRun ==
    /\ fbDom' = 0
    /\ fbSeenPosts' = <<>>
    /\ fbPosts' = <<>>
    /\ fbSeenContent' = {}
    /\ fbStoppedReason' = "scroll_limit"
    /\ fbScroll' = 0
    /\ fbChecked' = <<>>
    /\ fbCheckedAt' = 0
    /\ fbScrolled' = 0
    /\ fbOps' = <<>>
    /\ fbThrown' = {}

(* crawl() line 161: state.facebook.lastSeenPosts || [] *)
SeenPostsOf(state) ==
    IF HasWindow(state) THEN state.facebook.lastSeenPosts ELSE <<>>

(* crawl() lines 153-188: read the state, open the feed *)
FbStart ==
    /\ fbPc \in {"idle", "done", "failed"}
    /\ runs < MaxRuns
    /\ runs' = runs + 1
    /\ fbSeenPosts' = SeenPostsOf(readCrawlState)
    /\ fbPosts' = <<>>
    /\ fbSeenContent' = {}
    /\ fbStoppedReason' = "scroll_limit"
    /\ fbScroll' = 0
    /\ fbDom' = 0
    /\ fbChecked' = <<>>
    /\ fbCheckedAt' = 0
    /\ fbScrolled' = 0
    /\ fbOps' = <<>>
    /\ fbThrown' = {}
    /\ fbPc' = IF 0 < MAX_SCROLL(fbEnv) THEN "scroll" ELSE "results"
    /\ UNCHANGED <<stateFile, artifacts, gained, fbFeed, fbEnv, fbFaults>>
    /\ UNCHANGED nonFbVars
    /\ RunStarts

(* the loop ending with the first step that finds no element *)
LoopGoesOn_untilEmpty(storyMessages, scroll, env) ==
    Len(storyMessages) > 0 /\ scroll + 1 < MAX_SCROLL(env)

(* line 75: scroll++ and the test scroll < scrollCount after a step that   *)
(* found storyMessages                                                     *)
LoopGoesOn(storyMessages, scroll, env) == scroll + 1 < MAX_SCROLL(env)

(* One iteration of outerLoop (lines 75-148). The page has rendered the    *)
(* first dom elements of the feed; at most one of them, the element at     *)
(* position bad, misbehaves in the way kind names.                         *)
FbScrollStepOn(dom, bad, kind) ==
    /\ fbPc = "scroll"
    /\ fbScroll < MAX_SCROLL(fbEnv)
    /\ dom \in fbDom..Min(fbDom + FbLoadMax, Len(fbFeed))
    /\  /\ bad <= dom
        /\ bad = 0 => kind = "noText"
        /\ bad # 0 => fbFaults < FbFaultMax
        /\ fbFaults' = IF bad = 0 THEN fbFaults ELSE fbFaults + 1
        /\ \E scan \in {ScanStories(SubSeq(fbFeed, 1, dom), 1, fbPosts,
                                   fbSeenContent, fbChecked, fbSeenPosts,
                                   bad, kind)} :
               /\ fbDom' = dom
               /\ fbPosts' = scan.posts
               /\ fbSeenContent' = scan.seenContent
               /\ fbChecked' = scan.checked
               /\ fbThrown' = fbThrown \cup scan.threw
               /\ fbOps' = StepOps(ShowMoreButtons(SubSeq(fbFeed, 1, dom)),
                                   scan.read, ~scan.reached)
               /\ fbCheckedAt' = IF scan.checked = fbChecked THEN fbCheckedAt
                                 ELSE fbScrolled
               /\ IF scan.reached
                  THEN /\ fbStoppedReason' = "reached_previous"
                       /\ fbPc' = "results"
                       /\ UNCHANGED <<fbScroll, fbScrolled>>
                  ELSE /\ fbScrolled' = fbScrolled + 1
                       /\ fbScroll' = fbScroll + 1
                       /\ fbPc' = IF LoopGoesOn(SubSeq(fbFeed, 1, dom),
                                                fbScroll, fbEnv)
                                  THEN "scroll" ELSE "results"
                       /\ UNCHANGED fbStoppedReason
    /\ UNCHANGED <<stateFile, artifacts, runs, gained, fbFeed, fbEnv,
                   fbSeenPosts>>
    /\ UNCHANGED nonFbVars
    /\ UNCHANGED <<exitStatus, runLog>>

FbScrollStep ==
    \E dom \in 0..Len(fbFeed), bad \in 0..Len(fbFeed),
       kind \in {"noText", "throws", "detached"} :
        FbScrollStepOn(dom, bad, kind)

(* A page call outside the try block (lines 77, 85, 146) rejects: the      *)
(* rejection leaves crawl(), line 215 logs it and exits with status 1      *)
FbPageThrows ==
    /\ fbPc = "scroll"
    /\ fbFaults < FbFaultMax
    /\ fbFaults' = fbFaults + 1
    /\ fbPc' = "failed"
    /\ FbNoRun
    /\ UNCHANGED <<stateFile, artifacts, runs, gained, fbFeed, fbEnv>>
    /\ UNCHANGED nonFbVars
    /\ exitStatus' = 1
    /\ RunThrows

(* crawl() lines 187-195: nothing to do for an empty result (main()        *)
(* resolves and the process ends), else write the artifact                 *)
FbResults ==
    /\ fbPc = "results"
    /\ IF Len(fbPosts) = 0
       THEN /\ fbPc' = "done"
            /\ exitStatus' = 0
            /\ FbNoRun
            /\ UNCHANGED artifacts
       ELSE /\ artifacts' = Append(artifacts,
                    [platform |-> "facebook", run |-> runs, crawlTime |-> runs,
                     posts |-> fbPosts, stoppedReason |-> fbStoppedReason])
            /\ fbPc' = "written"
            /\ UNCHANGED exitStatus
            /\ UNCHANGED <<fbDom, fbSeenPosts, fbPosts, fbSeenContent,
                           fbStoppedReason, fbScroll, fbChecked, fbCheckedAt,
                           fbScrolled, fbOps, fbThrown>>
    /\ UNCHANGED <<stateFile, runs, gained, fbFeed, fbEnv, fbFaults>>
    /\ UNCHANGED nonFbVars
    /\ RunHolds(Len(fbPosts))

(* crawl() lines 197-202; main() resolves and the process ends *)
FbUpdateState ==
    /\ fbPc = "written"
    /\ IF UpdateFacebookThrows(readCrawlState)
       THEN /\ UNCHANGED stateFile
            /\ fbPc' = "failed"
            /\ exitStatus' = 1
            /\ RunThrows
       ELSE /\ stateFile' = updateFacebookState(
                                [i \in 1..Len(fbPosts) |->
                                    [url |-> fbPosts[i].url,
                                     content |-> fbPosts[i].content]], runs)
            /\ fbPc' = "done"
            /\ exitStatus' = 0
            /\ UNCHANGED runLog
    /\ FbNoRun
    /\ UNCHANGED <<artifacts, runs, gained, fbFeed, fbEnv, fbFaults>>
    /\ UNCHANGED nonFbVars

(* Between two runs the feed gains, at its head, the first of the stories  *)
(* it does not show yet                                                    *)
FbSourceGains ==
    /\ fbPc \in {"done", "failed"}
    /\ runs < MaxRuns
    /\ gained < MaxNew
    /\ gained' = gained + 1
    /\ \E i \in 1..Len(Stories) :
        /\ Stories[i] \notin Range(fbFeed)
        /\ \A j \in 1..(i - 1) : Stories[j] \in Range(fbFeed)
        /\ fbFeed' = <<Stories[i]>> \o fbFeed
    /\ UNCHANGED <<stateFile, artifacts, runs, fbEnv, fbPc, fbDom, fbSeenPosts,
                   fbPosts, fbSeenContent, fbStoppedReason, fbScroll,
                   fbChecked, fbCheckedAt, fbScrolled, fbFaults, fbOps,
                   fbThrown>>
    /\ UNCHANGED nonFbVars
    /\ UNCHANGED <<exitStatus, runLog>>

(* crawl() is at pc with its locals as before a run *)
FbAt(pc) ==
    /\ fbPc = pc
    /\ fbDom = 0
    /\ fbSeenPosts = <<>>
    /\ fbPosts = <<>>
    /\ fbSeenContent = {}
    /\ fbStoppedReason = "scroll_limit"
    /\ fbScroll = 0
    /\ fbChecked = <<>>
    /\ fbCheckedAt = 0
    /\ fbScrolled = 0
    /\ fbFaults = 0
    /\ fbOps = <<>>
    /\ fbThrown = {}

FbIdle == FbAt("idle")

(* No Facebook crawl takes part *)
FbAbsent ==
    /\ fbFeed = <<>>
    /\ fbEnv = 0
    /\ FbAt("absent")

(* The seen-set of utils.test.ts line 79 *)
SeenFixture ==
    << [postId |->
            <<"p", "f", "b", "i", "d", "0", "2", "F", "A", "x", "x">>,
        contentHash |->
            <<"h", "a", "b", "c", "1", "2", "3">>] >>

(* The post captured from a well-behaved element *)
PostOf(el) ==
    FacebookPost(AuthorOf(el, FALSE), CleanContent(el.innerText),
                 UrlOf(el, FALSE))

(* The window an earlier run left that captured the feed from element j on *)
WindowOf(feed, j) ==
    Slice([i \in 1..(Len(feed) + 1 - j) |-> SeenPostOf(PostOf(feed[j + i - 1]))],
          MAX_SEEN_POSTS)

Feeds ==
    { <<>>, <<StoryX, StoryY>>, <<StoryLong, StoryZ>>,
      <<StoryY, StoryZ, StoryX>> }

InitFb ==
    /\ artifacts = <<>>
    /\ runs = 0
    /\ gained = 0
    /\ fbFeed \in Feeds
    /\ fbEnv = FbEnvMax
    /\ \E window \in {<<>>, SeenFixture}
                     \cup {WindowOf(fbFeed, j) : j \in 1..Len(fbFeed)} :
        stateFile = [DEFAULT_STATE EXCEPT !.facebook =
                        [lastSeenPosts |-> window, lastCrawlTime |-> NoTime]]
    /\ FbIdle

(* The document of a version of the crawler that kept one lastSeenUrl:   *)
(* readCrawlState merges the sections shallowly (utils.ts line 76), so the *)
(* facebook section read has no lastSeenPosts                              *)
InitFbLegacy ==
    /\ artifacts = <<>>
    /\ runs = 0
    /\ gained = 0
    /\ fbFeed \in Feeds \ {<<>>}
    /\ fbEnv = FbEnvMax
    /\ \E url \in {null, X_URL} :
        stateFile = [DEFAULT_STATE EXCEPT !.facebook =
                        [lastSeenUrl |-> url, lastCrawlTime |-> NoTime]]
    /\ FbIdle

NextFb ==
    \/ FbStart
    \/ FbScrollStep
    \/ FbPageThrows
    \/ FbResults
    \/ FbUpdateState
    \/ FbSourceGains

(* No Twitter crawl takes part *)
TwAbsent ==
    /\ twSource = <<>>
    /\ twNextId = 1
    /\ TwAt("absent")

----------------------------------------------------------------------------
(* JavaScript strings of the Markdown emitters (utils.ts) and of lean.ts   *)
(*                                                                         *)
(* An artifact and every field of an item is a sequence of one-character   *)
(* strings, the line break being the character Newline.                    *)

NL == <<Newline>>

(* the least element of a non-empty set of numbers *)
Least(S) == CHOOSE x \in S : \A y \in S : x <= y

(* String.prototype.indexOf(pat, from), positions counted from 1; 0: none *)
IndexOf(s, pat, from) ==
    LET at == {i \in from..(Len(s) - Len(pat) + 1) : StartsWithAt(s, i, pat)}
    IN  IF at = {} THEN 0 ELSE Least(at)

(* String.prototype.split(sep) for a separator of one character, from     *)
(* position i on                                                           *)
RECURSIVE SplitFrom(_, _, _)
SplitFrom(s, sep, i) ==
    LET n == IndexOf(s, <<sep>>, i)
    IN  IF n = 0 THEN <<SubSeq(s, i, Len(s))>>
        ELSE <<SubSeq(s, i, n - 1)>> \o SplitFrom(s, sep, n + 1)

SplitSeq(s, sep) == SplitFrom(s, sep, 1)

SplitLines(s) == SplitSeq(s, Newline)

(* Array.prototype.join(sep) *)
RECURSIVE JoinWith(_, _)
JoinWith(parts, sep) ==
    IF parts = <<>> THEN <<>>
    ELSE IF Len(parts) = 1 THEN parts[1]
    ELSE parts[1] \o sep \o JoinWith(Tail(parts), sep)

JoinLines(lines) == JoinWith(lines, <<Newline>>)

(* String.prototype.trim on a character sequence *)
TrimText(s) ==
    LET solid == {i \in 1..Len(s) : ~IsSpace(s[i])}
    IN  IF solid = {} THEN <<>>
        ELSE SubSeq(s, Least(solid),
                    CHOOSE i \in solid : \A j \in solid : j <= i)

(* a character that is not the empty text *)
IsChar(c) == c # ""

(* String.prototype.replace(/\s+/g, ' ') on a character sequence *)
CollapseRuns(s) ==
    SelectSeq([i \in 1..Len(s) |->
                    IF ~IsSpace(s[i]) THEN s[i]
                    ELSE IF i > 1 /\ IsSpace(s[i - 1]) THEN "" ELSE " "],
              IsChar)

(* String.prototype.endsWith *)
EndsWith(s, pat) == StartsWithAt(s, Len(s) - Len(pat) + 1, pat)

(* Number.prototype.toString() of a natural number *)
RECURSIVE ToDecimal(_)
ToDecimal(n) ==
    IF n < 10 THEN <<Digits36[n + 1]>>
    ELSE ToDecimal(n \div 10) \o <<Digits36[(n % 10) + 1]>>

(* parseInt(s, 10) of a string of digits *)
RECURSIVE ParseInt(_)
ParseInt(s) ==
    IF s = <<>> THEN 0
    ELSE 10 * ParseInt(SubSeq(s, 1, Len(s) - 1))
         + (CHOOSE d \in 0..9 : Digits36[d + 1] = s[Len(s)])

(* /^\d+$/.test(s) *)
AllDigits(s) == s # <<>> /\ \A i \in 1..Len(s) : IsDigit(s[i])

(* The fixed texts of the artifact format *)
RULE ==
    <<"-", "-", "-">>

SEPARATOR ==
    <<Newline, Newline, "-", "-", "-", Newline, Newline>>

BLANK ==
    <<Newline, Newline>>

QUOTE ==
    <<"\"">>

PLATFORM ==
    <<"p", "l", "a", "t", "f", "o", "r", "m">>

CRAWL_TIME ==
    <<"c", "r", "a", "w", "l", "T", "i", "m", "e">>

POST_COUNT ==
    <<"p", "o", "s", "t", "C", "o", "u", "n", "t">>

STOPPED_REASON ==
    <<"s", "t", "o", "p", "p", "e", "d", "R", "e", "a", "s", "o", "n">>

SOURCE_FILE ==
    <<"s", "o", "u", "r", "c", "e", "F", "i", "l", "e">>

POST_HEADING ==
    <<"#", "#", " ", "P", "o", "s", "t", " ">>

EMAIL_HEADING ==
    <<"#", "#", " ", "E", "m", "a", "i", "l", " ">>

AUTHOR_LABEL ==
    <<"*", "*", "A", "u", "t", "h", "o", "r", ":", "*", "*">>

URL_LABEL ==
    <<"*", "*", "U", "R", "L", ":", "*", "*">>

DATE_LABEL ==
    <<"*", "*", "D", "a", "t", "e", ":", "*", "*">>

FROM_LABEL ==
    <<"*", "*", "F", "r", "o", "m", ":", "*", "*">>

SUBJECT_LABEL ==
    <<"*", "*", "S", "u", "b", "j", "e", "c", "t", ":", "*", "*">>

CONTENT_MARKER ==
    <<"#", "#", "#", " ", "C", "o", "n", "t", "e", "n", "t">>

QUOTED_MARKER ==
    <<"#", "#", "#", " ", "Q", "u", "o", "t", "e", "d", " ", "T", "w", "e",
      "e", "t">>

RETWEETED_MARKER ==
    <<"#", "#", "#", " ", "R", "e", "t", "w", "e", "e", "t", "e", "d", " ",
      "T", "w", "e", "e", "t">>

NOT_AVAILABLE ==
    <<"N", "/", "A">>

FACEBOOK ==
    <<"f", "a", "c", "e", "b", "o", "o", "k">>

TWITTER ==
    <<"t", "w", "i", "t", "t", "e", "r">>

GMAIL ==
    <<"g", "m", "a", "i", "l">>

FACEBOOK_TITLE ==
    <<"#", " ", "F", "a", "c", "e", "b", "o", "o", "k", " ", "F", "a", "v",
      "o", "r", "i", "t", "e", "s", " ", "C", "r", "a", "w", "l">>

TWITTER_TITLE ==
    <<"#", " ", "T", "w", "i", "t", "t", "e", "r", " ", "L", "i", "s", "t",
      " ", "C", "r", "a", "w", "l">>

GMAIL_TITLE ==
    <<"#", " ", "G", "m", "a", "i", "l", " ", "N", "e", "w", "s", "l", "e",
      "t", "t", "e", "r", " ", "C", "r", "a", "w", "l">>

TITLE_MARK ==
    <<"#", " ">>

COLON ==
    <<":", " ">>

UNDEFINED ==
    <<"u", "n", "d", "e", "f", "i", "n", "e", "d">>

CFT_PARAM ==
    <<"_", "_", "c", "f", "t", "_", "_", "[", "0", "]">>

TN_PARAM ==
    <<"_", "_", "t", "n", "_", "_">>

REACHED_PREVIOUS ==
    <<"r", "e", "a", "c", "h", "e", "d", "_", "p", "r", "e", "v", "i", "o",
      "u", "s">>

SCROLL_LIMIT ==
    <<"s", "c", "r", "o", "l", "l", "_", "l", "i", "m", "i", "t">>

API_LIMIT ==
    <<"a", "p", "i", "_", "l", "i", "m", "i", "t">>

QUERY_EXHAUSTED ==
    <<"q", "u", "e", "r", "y", "_", "e", "x", "h", "a", "u", "s", "t", "e",
      "d">>

----------------------------------------------------------------------------
(* utils.ts generateFacebookMD, generateTwitterMD, generateGmailMD         *)

(* lines 198-203, 232-237, 319-324: the frontmatter template *)
MdFrontmatter(platform, metadata, count) ==
    RULE \o NL
    \o PLATFORM \o COLON \o platform \o NL
    \o CRAWL_TIME \o COLON \o QUOTE \o metadata.crawlTime \o QUOTE \o NL
    \o POST_COUNT \o COLON \o ToDecimal(count) \o NL
    \o STOPPED_REASON \o COLON \o QUOTE \o metadata.stoppedReason \o QUOTE \o NL
    \o RULE

(* lines 218-223, 271-276, 340-345: frontmatter, title and item sections *)
MdDocument(frontmatter, title, sections) ==
    frontmatter \o BLANK \o title \o BLANK \o JoinWith(sections, SEPARATOR)
    \o NL

(* lines 207-214 *)
FacebookSection(post, index) ==
    POST_HEADING \o ToDecimal(index) \o BLANK
    \o AUTHOR_LABEL \o <<" ">> \o post.author \o NL
    \o URL_LABEL \o <<" ">>
    \o (IF post.url # <<>> THEN post.url ELSE NOT_AVAILABLE) \o BLANK
    \o CONTENT_MARKER \o BLANK
    \o post.content

(* utils.ts generateFacebookMD *)
generateFacebookMD(posts, metadata) ==
    MdDocument(MdFrontmatter(FACEBOOK, metadata, Len(posts)), FACEBOOK_TITLE,
               [i \in 1..Len(posts) |-> FacebookSection(posts[i], i)])

(* lines 251-265: the optional sections of a tweet *)
TweetExtras(post) ==
    (IF post.quotedContent # <<>>
     THEN BLANK \o QUOTED_MARKER \o BLANK \o post.quotedContent
     ELSE <<>>)
    \o (IF post.retweetedContent # <<>>
        THEN BLANK \o RETWEETED_MARKER \o BLANK \o post.retweetedContent
        ELSE <<>>)

(* lines 241-267 *)
TwitterSection(post, index) ==
    POST_HEADING \o ToDecimal(index) \o BLANK
    \o AUTHOR_LABEL \o <<" ">> \o post.author
    \o <<" ", "(", "@">> \o post.username \o <<")">> \o NL
    \o DATE_LABEL \o <<" ">> \o post.createdAt \o NL
    \o URL_LABEL \o <<" ">> \o post.url \o BLANK
    \o CONTENT_MARKER \o BLANK
    \o post.content
    \o TweetExtras(post)

(* utils.ts generateTwitterMD *)
generateTwitterMD(posts, metadata) ==
    MdDocument(MdFrontmatter(TWITTER, metadata, Len(posts)), TWITTER_TITLE,
               [i \in 1..Len(posts) |-> TwitterSection(posts[i], i)])

(* lines 328-336 *)
GmailSection(email, index) ==
    EMAIL_HEADING \o ToDecimal(index) \o BLANK
    \o FROM_LABEL \o <<" ">> \o email.from \o NL
    \o SUBJECT_LABEL \o <<" ">> \o email.subject \o NL
    \o DATE_LABEL \o <<" ">> \o email.date \o BLANK
    \o CONTENT_MARKER \o BLANK
    \o email.content

(* utils.ts generateGmailMD *)
generateGmailMD(emails, metadata) ==
    MdDocument(MdFrontmatter(GMAIL, metadata, Len(emails)), GMAIL_TITLE,
               [i \in 1..Len(emails) |-> GmailSection(emails[i], i)])

----------------------------------------------------------------------------
(* lean.ts: parseFrontmatter, parsePosts, parseMdFile                      *)
(*                                                                         *)
(* A frontmatter value is [number |-> n] or [string |-> text]; the         *)
(* frontmatter object is a function from its keys to their values.         *)

(* what parseFrontmatter() and parseMdFile() leave when they throw *)
NoFrontmatter == [error |-> "No frontmatter found"]

(* a call ended with an exception *)
Threw(result) == "error" \in DOMAIN result

(* lines 83-91: the value of a frontmatter line *)
FmValue(text) ==
    LET value == TrimText(text)
        bare == IF StartsWithAt(value, 1, QUOTE) /\ EndsWith(value, QUOTE)
                THEN SubSeq(value, 2, Len(value) - 1)
                ELSE value
    IN  IF AllDigits(bare) THEN [number |-> ParseInt(bare)]
        ELSE [string |-> bare]

(* line 82: the key of a frontmatter line with a colon *)
FmKey(line) == TrimText(SubSeq(line, 1, IndexOf(line, <<":">>, 1) - 1))

(* lines 78-93: the object built from the lines of the header; a key set   *)
(* twice keeps its last value                                              *)
FmObject(header) ==
    LET lines == SplitLines(header)
        keyed == {i \in 1..Len(lines) : IndexOf(lines[i], <<":">>, 1) # 0}
        last(key) == CHOOSE i \in keyed :
                        /\ FmKey(lines[i]) = key
                        /\ \A j \in keyed : FmKey(lines[j]) = key => j <= i
    IN  [key \in {FmKey(lines[i]) : i \in keyed} |->
            FmValue(From(lines[last(key)],
                         IndexOf(lines[last(key)], <<":">>, 1) + 1))]

(* `${frontmatter[key]}`: the text of a value in a template *)
FmText(frontmatter, key) ==
    IF key \notin DOMAIN frontmatter THEN UNDEFINED
    ELSE IF "number" \in DOMAIN frontmatter[key]
    THEN ToDecimal(frontmatter[key].number)
    ELSE frontmatter[key].string

(* lean.ts parseFrontmatter: the pattern of line 75 wants the rule and a  *)
(* line break at the start and, its first group being lazy, closes the     *)
(* header at the first line break followed by the rule and a line break    *)
parseFrontmatter(raw) ==
    LET close == IndexOf(raw, NL \o RULE \o NL, Len(RULE) + 2)
    IN  IF ~StartsWithAt(raw, 1, RULE \o NL) \/ close = 0 THEN NoFrontmatter
        ELSE [frontmatter |->
                FmObject(SubSeq(raw, Len(RULE) + 2, close - 1)),
              body |-> From(raw, close + Len(RULE) + 2)]

(* /^## (?:Post|Email) \d+/ at the start of a line *)
IsHeading(line) ==
    \E heading \in {POST_HEADING, EMAIL_HEADING} :
        /\ StartsWithAt(line, 1, heading)
        /\ Len(line) > Len(heading)
        /\ IsDigit(line[Len(heading) + 1])

(* The elements of a set of numbers in ascending order *)
Ascending(S) ==
    [k \in 1..Cardinality(S) |->
        CHOOSE x \in S : Cardinality({y \in S : y < x}) = k - 1]

(* line 108: body.split(/(?=^## (?:Post|Email) \d+)/m), then the filter:   *)
(* the body is cut before every heading line but its first line, and the   *)
(* pieces that start with a heading are kept; every piece but the last     *)
(* ends with the line break before the next heading                        *)
PostSections(body) ==
    LET lines == SplitLines(body)
        cuts == {k \in 2..Len(lines) : IsHeading(lines[k])}
        starts == Ascending({1} \cup cuts)
        piece(k) ==
            IF k < Len(starts)
            THEN JoinLines(SubSeq(lines, starts[k], starts[k + 1] - 1)) \o NL
            ELSE JoinLines(SubSeq(lines, starts[k], Len(lines)))
        kept == Ascending({k \in 1..Len(starts) : IsHeading(lines[starts[k]])})
    IN  [k \in 1..Len(kept) |-> piece(kept[k])]

(* lines 123-132: the value of the last line among lines that starts with  *)
(* label, '' when there is none                                            *)
Labelled(lines, label) ==
    LET found == {i \in 1..Len(lines) : StartsWithAt(lines[i], 1, label)}
    IN  IF found = {} THEN <<>>
        ELSE TrimText(From(lines[CHOOSE i \in found : \A j \in found : j <= i],
                           Len(label) + 1))

(* line 142: the lines without their leading blank ones *)
DropBlankLines(lines) ==
    LET solid == {i \in 1..Len(lines) : TrimText(lines[i]) # <<>>}
    IN  IF solid = {} THEN <<>> ELSE From(lines, Least(solid))

(* line 162: String.prototype.replace(/\n---\s*$/, '') *)
StripTrailingRule(text) ==
    LET at == {p \in 1..Len(text) :
                 /\ StartsWithAt(text, p, NL \o RULE)
                 /\ \A q \in (p + Len(RULE) + 1)..Len(text) : IsSpace(text[q])}
    IN  IF at = {} THEN text ELSE SubSeq(text, 1, Least(at) - 1)

(* lines 150-159: the index of the first content line that opens the extra *)
(* sections, one past the last line when there is none                     *)
ExtraStart(contentLines) ==
    LET marked == {i \in 1..Len(contentLines) :
                     \/ StartsWithAt(contentLines[i], 1, QUOTED_MARKER)
                     \/ StartsWithAt(contentLines[i], 1, RETWEETED_MARKER)}
    IN  IF marked = {} THEN Len(contentLines) + 1 ELSE Least(marked)

(* lines 150-156: extra += cl + '\n' for every line of the extra sections *)
RECURSIVE ExtraText(_)
ExtraText(lines) ==
    IF lines = <<>> THEN <<>>
    ELSE lines[1] \o NL \o ExtraText(Tail(lines))

(* lines 111-164: one section *)
ParseSection(section) ==
    LET sLines == SplitLines(section)
        markers == {i \in 2..Len(sLines) : sLines[i] = CONTENT_MARKER}
        (* the loop of line 121 stops at the first marker line *)
        scanned == IF markers = {} THEN Tail(sLines)
                   ELSE SubSeq(sLines, 2, Least(markers) - 1)
        (* line 140: contentStartIdx stays 0 when no marker line was met *)
        contentLines == DropBlankLines(
                            IF markers = {} THEN sLines
                            ELSE From(sLines, Least(markers) + 1))
        extraAt == ExtraStart(contentLines)
    IN  [heading |-> sLines[1],
         author |-> Labelled(scanned, AUTHOR_LABEL),
         url |-> Labelled(scanned, URL_LABEL),
         date |-> Labelled(scanned, DATE_LABEL),
         subject |-> Labelled(scanned, SUBJECT_LABEL),
         from |-> Labelled(scanned, FROM_LABEL),
         content |-> TrimText(StripTrailingRule(
                        JoinLines(SubSeq(contentLines, 1, extraAt - 1)))),
         extra |-> TrimText(ExtraText(From(contentLines, extraAt)))]

(* lines 100-105: the first line starting with '# ', '' when there is none *)
TitleOf(body) ==
    LET lines == SplitLines(body)
        found == {i \in 1..Len(lines) : StartsWithAt(lines[i], 1, TITLE_MARK)}
    IN  IF found = {} THEN <<>> ELSE lines[Least(found)]

(* lean.ts parsePosts *)
parsePosts(body, platform) ==
    LET sections == PostSections(body)
    IN  [title |-> TitleOf(body),
         posts |-> [k \in 1..Len(sections) |-> ParseSection(sections[k])]]

(* lean.ts parseMdFile (the field raw of its result is left out) *)
parseMdFile(raw) ==
    LET header == parseFrontmatter(raw)
    IN  IF Threw(header) THEN NoFrontmatter
        ELSE LET parsed == parsePosts(header.body,
                                      FmText(header.frontmatter, PLATFORM))
             IN  [frontmatter |-> header.frontmatter,
                  title |-> parsed.title,
                  posts |-> parsed.posts]

----------------------------------------------------------------------------
(* lean.ts: cleanFacebookUrl, cleanGmailContent, dedupPosts, generateLeanMd *)

(* Array.prototype.indexOf on the keys of a list of entries; 0: none *)
EntryOf(entries, key) ==
    LET found == {i \in 1..Len(entries) : entries[i].key = key}
    IN  IF found = {} THEN 0 ELSE Least(found)

(* The query of a URL as the list of its name=value parameters *)
ParamsOf(search) ==
    LET parts == SplitSeq(search, "&")
    IN  [i \in 1..Len(parts) |->
            LET eq == IndexOf(parts[i], <<"=">>, 1)
            IN  IF eq = 0 THEN [key |-> parts[i], value |-> <<>>]
                ELSE [key |-> SubSeq(parts[i], 1, eq - 1),
                      value |-> From(parts[i], eq + 1)]]

NotTracking(param) == param.key \notin {CFT_PARAM, TN_PARAM}

(* URLSearchParams.prototype.toString() *)
SearchOf(params) ==
    JoinWith([i \in 1..Len(params) |->
                params[i].key \o <<"=">> \o params[i].value], <<"&">>)

(* line 54: String.prototype.replace(/\?__cft__\[0\]=.*$/, '') *)
StripCftSuffix(url) ==
    LET at == IndexOf(url, <<"?">> \o CFT_PARAM \o <<"=">>, 1)
    IN  IF at = 0 \/ IndexOf(url, NL, at) # 0 THEN url
        ELSE SubSeq(url, 1, at - 1)

(* lean.ts cleanFacebookUrl. new URL(url) accepts the absolute http and    *)
(* https URLs and throws on any other text of the model; the URLs of the   *)
(* model are in the form URL.prototype.toString() gives them.              *)
cleanFacebookUrl(url) ==
    LET hashAt == IndexOf(url, <<"#">>, 1)
        beforeHash == IF hashAt = 0 THEN url ELSE SubSeq(url, 1, hashAt - 1)
        hash == IF hashAt = 0 THEN <<>> ELSE From(url, hashAt)
        queryAt == IndexOf(beforeHash, <<"?">>, 1)
        originAndPath == IF queryAt = 0 THEN beforeHash
                         ELSE SubSeq(beforeHash, 1, queryAt - 1)
        search == IF queryAt = 0 THEN <<>> ELSE From(beforeHash, queryAt + 1)
        left == SelectSeq(IF search = <<>> THEN <<>> ELSE ParamsOf(search),
                          NotTracking)
    IN  IF url = <<>> \/ url = NOT_AVAILABLE THEN url
        ELSE IF ~StartsWithAt(url, 1, HTTP) THEN StripCftSuffix(url)
        ELSE IF left = <<>> THEN originAndPath
        ELSE originAndPath \o <<"?">> \o SearchOf(left) \o hash

(* The position of the last character of the match of a pattern of        *)
(* cleanGmailContent that starts at position i of s; 0 when none does.     *)
(* "image": /!\[[^\]]*\]\([^)]+\)/, "imageLink":                           *)
(* /\[!\[[^\]]*\]\([^)]*\)\]\([^)]*\)/, "emptyLink": /\[\s*\]\([^)]+\)/    *)
(* (and /\[\s*\n*\s*\]\([^)]+\)/, which matches the same texts)            *)
MatchEnd(s, i, kind) ==
    LET opens == CASE kind = "image" -> <<"!", "[">>
                   [] kind = "imageLink" -> <<"[", "!", "[">>
                   [] kind = "emptyLink" -> <<"[">>
        inner == i + Len(opens)
        blanks == {j \in inner..Len(s) : ~IsSpace(s[j])}
        bracket == IF kind = "emptyLink"
                   THEN (IF blanks # {} /\ s[Least(blanks)] = "]"
                         THEN Least(blanks) ELSE 0)
                   ELSE IndexOf(s, <<"]">>, inner)
        paren == IF bracket # 0 /\ StartsWithAt(s, bracket + 1, <<"(">>)
                 THEN IndexOf(s, <<")">>, bracket + 2) ELSE 0
        outer == IF paren # 0 /\ StartsWithAt(s, paren + 1, <<"]", "(">>)
                 THEN IndexOf(s, <<")">>, paren + 3) ELSE 0
    IN  IF ~StartsWithAt(s, i, opens) THEN 0
        ELSE IF kind = "imageLink" THEN outer
        ELSE IF paren > bracket + 2 THEN paren
        ELSE 0

(* String.prototype.replace(pattern, '') with the g flag, from position i *)
RECURSIVE RemoveMatches(_, _, _)
RemoveMatches(s, i, kind) ==
    LET at == {j \in i..Len(s) : MatchEnd(s, j, kind) # 0}
    IN  IF at = {} THEN From(s, i)
        ELSE SubSeq(s, i, Least(at) - 1)
             \o RemoveMatches(s, MatchEnd(s, Least(at), kind) + 1, kind)

(* line 68: String.prototype.replace(/\n{3,}/g, '\n\n') *)
CollapseBlankLines(s) ==
    LET kept == Ascending({i \in 1..Len(s) :
                    ~(i > 2 /\ s[i] = Newline /\ s[i - 1] = Newline
                      /\ s[i - 2] = Newline)})
    IN  [k \in 1..Len(kept) |-> s[kept[k]]]

(* lean.ts cleanGmailContent *)
cleanGmailContent(content) ==
    TrimText(CollapseBlankLines(
        RemoveMatches(
            RemoveMatches(
                RemoveMatches(
                    RemoveMatches(content, 1, "image"),
                    1, "imageLink"),
                1, "emptyLink"),
            1, "emptyLink")))

DEDUP_KEY_LENGTH == 100

NotSpace(c) == ~IsSpace(c)

(* the key made from the content with its whitespace runs collapsed to one *)
(* space each instead of removed                                           *)
DedupKey_collapsed(content) ==
    LET collapsed == CollapseRuns(content)
    IN  SubSeq(collapsed, 1, Min(DEDUP_KEY_LENGTH, Len(collapsed)))

(* line 181: post.content.replace(/\s+/g, '').substring(0, 100) *)
DedupKey(content) ==
    LET solid == SelectSeq(content, NotSpace)
    IN  SubSeq(solid, 1, Min(DEDUP_KEY_LENGTH, Len(solid)))

(* lines 180-187: the Map seen after the posts from position i on, as the  *)
(* list of its entries in insertion order                                  *)
RECURSIVE DedupFrom(_, _, _)
DedupFrom(posts, i, seen) ==
    IF i > Len(posts) THEN seen
    ELSE
      LET post == posts[i]
          key == DedupKey(post.content)
          existing == EntryOf(seen, key)
      IN  IF key = <<>> THEN DedupFrom(posts, i + 1, seen)
          ELSE IF existing = 0
          THEN DedupFrom(posts, i + 1,
                         Append(seen, [key |-> key, value |-> post]))
          ELSE IF Len(post.content) > Len(seen[existing].value.content)
          THEN DedupFrom(posts, i + 1,
                         [seen EXCEPT ![existing].value = post])
          ELSE DedupFrom(posts, i + 1, seen)

(* lean.ts dedupPosts *)
dedupPosts(posts) ==
    LET seen == DedupFrom(posts, 1, <<>>)
    IN  [k \in 1..Len(seen) |-> seen[k].value]

(* lines 198-203: the cleaning of the platform *)
CleanedPosts(platform, posts) ==
    IF platform = FACEBOOK
    THEN LET kept == dedupPosts(posts)
         IN  [k \in 1..Len(kept) |->
                [kept[k] EXCEPT !.url = cleanFacebookUrl(kept[k].url)]]
    ELSE IF platform = GMAIL
    THEN [k \in 1..Len(posts) |->
            [posts[k] EXCEPT !.content = cleanGmailContent(posts[k].content)]]
    ELSE posts

(* lines 222-226: a metadata line, left out when the value is empty *)
LeanLine(label, value) ==
    IF value = <<>> THEN <<>> ELSE <<label \o <<" ">> \o value>>

(* lines 219-236: one section of the lean artifact *)
LeanSection(post, index) ==
    JoinLines(
        <<POST_HEADING \o ToDecimal(index)>>
        \o LeanLine(AUTHOR_LABEL, post.author)
        \o LeanLine(FROM_LABEL, post.from)
        \o LeanLine(SUBJECT_LABEL, post.subject)
        \o LeanLine(DATE_LABEL, post.date)
        \o (IF post.url = NOT_AVAILABLE THEN <<>>
            ELSE LeanLine(URL_LABEL, post.url))
        \o << <<>>, post.content >>
        \o (IF post.extra = <<>> THEN <<>> ELSE << <<>>, post.extra >>))

(* lean.ts generateLeanMd *)
generateLeanMd(parsed, sourceFile) ==
    LET platform == FmText(parsed.frontmatter, PLATFORM)
        posts == CleanedPosts(platform, parsed.posts)
        fm == JoinLines(
                << RULE,
                   PLATFORM \o COLON \o platform,
                   CRAWL_TIME \o COLON \o QUOTE
                     \o FmText(parsed.frontmatter, CRAWL_TIME) \o QUOTE,
                   POST_COUNT \o COLON \o ToDecimal(Len(posts)),
                   STOPPED_REASON \o COLON \o QUOTE
                     \o FmText(parsed.frontmatter, STOPPED_REASON) \o QUOTE,
                   SOURCE_FILE \o COLON \o QUOTE \o sourceFile \o QUOTE,
                   RULE >>)
    IN  MdDocument(fm, parsed.title,
                   [i \in 1..Len(posts) |-> LeanSection(posts[i], i)])

----------------------------------------------------------------------------
(* lean.ts main() over the artifacts the crawlers write                    *)

(* new Date().toISOString() (lean.test.ts line 62) *)
CRAWL_TIME_STAMP ==
    <<"2", "0", "2", "6", "-", "0", "1", "-", "2", "6", "T", "1", "4", ":",
      "1", "7", ":", "1", "1", ".", "8", "0", "2", "Z">>

(* utils.ts generateOutputPath: the names of the artifacts *)
FB_FILE ==
    <<"f", "b", "-", "2", "0", "2", "6", "-", "0", "1", "-", "2", "6", "-",
      "2", "2", "1", "7", "1", "1", ".", "m", "d">>

TWEET_FILE ==
    <<"t", "w", "e", "e", "t", "-", "2", "0", "2", "6", "-", "0", "1", "-",
      "2", "6", "-", "2", "2", "1", "7", "1", "1", ".", "m", "d">>

GMAIL_FILE ==
    <<"g", "m", "a", "i", "l", "-", "2", "0", "2", "6", "-", "0", "1", "-",
      "2", "6", "-", "2", "2", "1", "8", "1", "1", ".", "m", "d">>

(* The posts a Facebook run captures (fb.ts lines 134-138): the author and *)
(* the content are trimmed, the url is absolute or empty                   *)
(* a post linked with tracking parameters *)
FbAnn ==
    [ author |->
        <<"A", "n", "n">>,
      content |->
        <<"H", "e", "l", "l", "o">>,
      url |->
        <<"h", "t", "t", "p", "s", ":", "/", "/", "w", "w", "w", ".", "f",
          "a", "c", "e", "b", "o", "o", "k", ".", "c", "o", "m", "/", "a",
          "n", "n", "/", "p", "o", "s", "t", "s", "/", "1", "2", "3", "?",
          "_", "_", "c", "f", "t", "_", "_", "[", "0", "]", "=", "A", "Z",
          "&", "_", "_", "t", "n", "_", "_", "=", "R">> ]

(* a post of two paragraphs without a link *)
FbBob ==
    [ author |->
        <<"B", "o", "b">>,
      content |->
        <<"L", "i", "n", "e", " ", "o", "n", "e", Newline, Newline, "L", "i",
          "n", "e", " ", "t", "w", "o">>,
      url |->
        <<>> ]

(* the same text rendered without the blank line *)
FbBobAgain ==
    [ author |->
        <<"B", "o", "b">>,
      content |->
        <<"L", "i", "n", "e", " ", "o", "n", "e", Newline, "L", "i", "n", "e",
          " ", "t", "w", "o">>,
      url |->
        <<>> ]

(* a post whose second line reads like a heading of the artifact *)
FbPat ==
    [ author |->
        <<"P", "a", "t">>,
      content |->
        <<"M", "y", " ", "l", "i", "s", "t", Newline, "#", "#", " ", "P", "o",
          "s", "t", " ", "9", " ", "i", "s", " ", "b", "e", "s", "t">>,
      url |->
        <<"h", "t", "t", "p", "s", ":", "/", "/", "w", "w", "w", ".", "f",
          "a", "c", "e", "b", "o", "o", "k", ".", "c", "o", "m", "/", "p",
          "h", "o", "t", "o", "?", "f", "b", "i", "d", "=", "1", "2", "3">> ]

FbItems == {FbAnn, FbBob, FbBobAgain, FbPat}

(* The tweets a Twitter run captures (the fields the emitter reads; an     *)
(* absent quotedContent or retweetedContent is the empty text)             *)
(* a tweet quoting another one (lean.test.ts lines 112-129) *)
TwVi ==
    [ author |->
        <<"V", "i">>,
      username |->
        <<"v", "i">>,
      createdAt |->
        <<"2", "0", "2", "6", "-", "0", "1", "-", "2", "6", "T", "0", "9",
          ":", "4", "6", ":", "2", "0", ".", "0", "0", "0", "Z">>,
      url |->
        <<"h", "t", "t", "p", "s", ":", "/", "/", "x", ".", "c", "o", "m",
          "/", "v", "i", "/", "s", "t", "a", "t", "u", "s", "/", "3">>,
      content |->
        <<"g", "m">>,
      quotedContent |->
        <<"a", "n", " ", "i", "n", "d", "i", "c", "a", "t", "o", "r">>,
      retweetedContent |->
        <<>> ]

(* a plain tweet of two lines *)
TwLee ==
    [ author |->
        <<"L", "e", "e">>,
      username |->
        <<"l", "e", "e">>,
      createdAt |->
        <<"2", "0", "2", "6", "-", "0", "1", "-", "2", "6", "T", "0", "9",
          ":", "4", "6", ":", "2", "0", ".", "0", "0", "0", "Z">>,
      url |->
        <<"h", "t", "t", "p", "s", ":", "/", "/", "x", ".", "c", "o", "m",
          "/", "l", "e", "e", "/", "s", "t", "a", "t", "u", "s", "/", "2">>,
      content |->
        <<"t", "w", "o", Newline, "l", "i", "n", "e", "s">>,
      quotedContent |->
        <<>>,
      retweetedContent |->
        <<>> ]

(* a retweet *)
TwRae ==
    [ author |->
        <<"R", "a", "e">>,
      username |->
        <<"r", "a", "e">>,
      createdAt |->
        <<"2", "0", "2", "6", "-", "0", "1", "-", "2", "6", "T", "0", "9",
          ":", "4", "6", ":", "2", "0", ".", "0", "0", "0", "Z">>,
      url |->
        <<"h", "t", "t", "p", "s", ":", "/", "/", "x", ".", "c", "o", "m",
          "/", "r", "a", "e", "/", "s", "t", "a", "t", "u", "s", "/", "1">>,
      content |->
        <<"R", "T", " ", "@", "v", "i", ":", " ", "g", "m">>,
      quotedContent |->
        <<>>,
      retweetedContent |->
        <<"g", "m">> ]

TwItems == {TwVi, TwLee, TwRae}

(* The emails a Gmail run captures (the fields the emitter reads) *)
(* lean.test.ts lines 262-269 *)
GmSubstack ==
    [ from |->
        <<"S", "u", "b", "s", "t", "a", "c", "k", " ", "<", "n", "o", "-",
          "r", "e", "p", "l", "y", "@", "s", "u", "b", "s", "t", "a", "c",
          "k", ".", "c", "o", "m", ">">>,
      subject |->
        <<"N", "e", "w", " ", "n", "o", "t", "e", "s">>,
      date |->
        <<"S", "a", "t", ",", " ", "2", "4", " ", "J", "a", "n", " ", "2",
          "0", "2", "6", " ", "2", "3", ":", "4", "1", ":", "2", "0", " ",
          "+", "0", "0", "0", "0">>,
      content |->
        <<"H", "e", "l", "l", "o", Newline, Newline, "!", "[", "i", "m", "a",
          "g", "e", "]", "(", "h", "t", "t", "p", "s", ":", "/", "/", "e",
          "x", "a", "m", "p", "l", "e", ".", "c", "o", "m", "/", "i", "m",
          "g", ".", "p", "n", "g", ")", Newline, Newline, "[", "]", "(", "h",
          "t", "t", "p", "s", ":", "/", "/", "t", "r", "a", "c", "k", "i",
          "n", "g", ".", "l", "i", "n", "k", ")", Newline, Newline, "R", "e",
          "a", "l", " ", "c", "o", "n", "t", "e", "n", "t", " ", "h", "e",
          "r", "e">> ]

(* a plain text email *)
GmNews ==
    [ from |->
        <<"N", "e", "w", "s", " ", "<", "n", "@", "x", ".", "i", "o", ">">>,
      subject |->
        <<"R", "e", ":", " ", "h", "i">>,
      date |->
        <<"S", "a", "t", ",", " ", "2", "4", " ", "J", "a", "n", " ", "2",
          "0", "2", "6", " ", "2", "3", ":", "4", "1", ":", "2", "0", " ",
          "+", "0", "0", "0", "0">>,
      content |->
        <<"P", "l", "a", "i", "n", " ", "t", "e", "x", "t">> ]

GmItems == {GmSubstack, GmNews}

(* The lists of 1..MaxItems items *)
ListsOf(items) ==
    UNION {[1..n -> items] : n \in 1..MaxItems}

(* What a crawl run hands to its emitter: the platform, the items, the     *)
(* crawl time and the stop reason, and the name of the file written        *)
Sources ==
    {[platform |-> FACEBOOK, items |-> items, crawlTime |-> CRAWL_TIME_STAMP,
      stoppedReason |-> reason, file |-> FB_FILE] :
        items \in ListsOf(FbItems), reason \in {REACHED_PREVIOUS, SCROLL_LIMIT}}
    \cup
    {[platform |-> TWITTER, items |-> items, crawlTime |-> CRAWL_TIME_STAMP,
      stoppedReason |-> reason, file |-> TWEET_FILE] :
        items \in ListsOf(TwItems), reason \in {REACHED_PREVIOUS, API_LIMIT}}
    \cup
    {[platform |-> GMAIL, items |-> items, crawlTime |-> CRAWL_TIME_STAMP,
      stoppedReason |-> reason, file |-> GMAIL_FILE] :
        items \in ListsOf(GmItems), reason \in {SCROLL_LIMIT, QUERY_EXHAUSTED}}

(* fb.ts line 193, tweet.ts line 123, gmail.ts line 421: the artifact *)
EmitArtifact(source) ==
    LET metadata == [crawlTime |-> source.crawlTime,
                     stoppedReason |-> source.stoppedReason]
    IN  CASE source.platform = FACEBOOK ->
                generateFacebookMD(source.items, metadata)
          [] source.platform = TWITTER ->
                generateTwitterMD(source.items, metadata)
          [] source.platform = GMAIL ->
                generateGmailMD(source.items, metadata)

NoSource == [platform |-> <<>>]

(* main() is at pc and holds no file *)
LeanAt(pc) ==
    /\ leanPc = pc
    /\ leanSource = NoSource
    /\ leanRaw = <<>>
    /\ leanParsed = NoFrontmatter
    /\ leanOut = <<>>
    /\ leanReparsed = NoFrontmatter

(* lean.ts does not take part *)
LeanAbsent == LeanAt("absent")

(* A crawl run writes its artifact to data/raw *)
LeanArtifactWritten ==
    /\ leanPc \in {"idle", "reparsed", "error"}
    /\ \E source \in Sources :
        /\ leanSource' = source
        /\ leanRaw' = EmitArtifact(source)
    /\ leanPc' = "raw"
    /\ leanParsed' = NoFrontmatter
    /\ leanOut' = <<>>
    /\ leanReparsed' = NoFrontmatter
    /\ UNCHANGED nonLeanVars

(* main() lines 286-307, one file: the artifact is read and parsed, the    *)
(* lean artifact is generated and written to data/lean under the name of   *)
(* the source artifact; line 305 catches what parseMdFile throws           *)
LeanFile ==
    /\ leanPc = "raw"
    /\ LET parsed == parseMdFile(leanRaw)
       IN  /\ leanParsed' = parsed
           /\ IF Threw(parsed)
              THEN leanPc' = "error" /\ UNCHANGED leanOut
              ELSE /\ leanPc' = "lean"
                   /\ leanOut' = generateLeanMd(parsed, leanSource.file)
    /\ UNCHANGED <<leanSource, leanRaw, leanReparsed>>
    /\ UNCHANGED nonLeanVars

(* The lean artifact is read back: a direct call of the exported          *)
(* parseMdFile on the text written to data/lean                            *)
LeanReparse ==
    /\ leanPc = "lean"
    /\ leanReparsed' = parseMdFile(leanOut)
    /\ leanPc' = IF Threw(parseMdFile(leanOut)) THEN "error" ELSE "reparsed"
    /\ UNCHANGED <<leanSource, leanRaw, leanParsed, leanOut>>
    /\ UNCHANGED nonLeanVars

InitLn == LeanAt("idle")

NextLn ==
    \/ LeanArtifactWritten
    \/ LeanFile
    \/ LeanReparse

----------------------------------------------------------------------------
(* Direct calls of the utils.ts functions, as utils.test.ts makes them     *)

MaxCalls == 2         \* direct calls per behaviour

UtAt(pc) ==
    /\ utPc = pc
    /\ utCalls = 0
    /\ utCall = [fn |-> "none"]
    /\ utBefore = DEFAULT_STATE
    /\ utReturn = FALSE

(* No direct call takes part *)
UtAbsent == UtAt("absent")

(* No crawl process ran yet *)
NoProcess ==
    /\ exitStatus = Running
    /\ runLog = [state |-> stateFile, artifacts |-> 0, captured |-> 0,
                 threw |-> FALSE]

(* utils.test.ts lines 78-81 *)
SeenPostsFixture ==
    SeenFixture \o
    << [postId |-> null,
        contentHash |-> <<"h", "d", "e", "f", "4", "5", "6">>] >>

(* The post ids and content hashes of utils.test.ts lines 84-96 *)
UtIds ==
    { null,
      <<"p", "f", "b", "i", "d", "0", "2", "F", "A", "x", "x">>,
      <<"p", "f", "b", "i", "d", "O", "t", "h", "e", "r">> }

UtHashes ==
    { <<"h", "a", "b", "c", "1", "2", "3">>,
      <<"h", "d", "e", "f", "4", "5", "6">>,
      <<"h", "x", "y", "z", "7", "8", "9">> }

(* The seen-sets passed: the two of the tests, the persisted window and    *)
(* one whose single entry has no id                                        *)
UtSeenSets ==
    { <<>>, SeenPostsFixture,
      << [postId |-> null,
          contentHash |-> <<"h", "a", "b", "c", "1", "2", "3">>] >>,
      stateFile.facebook.lastSeenPosts }

(* A captured post as crawl() hands it over (fb.ts line 198); the third    *)
(* has no link                                                             *)
UtPost(i) ==
    [url |-> IF i = 3 THEN <<>>
             ELSE FACEBOOK_ORIGIN \o POSTS_PATH
                    \o <<Ascii[17 + (i \div 10)], Ascii[17 + (i % 10)]>>,
     content |-> Encode(<<Ascii[33 + i]>>)]

UtPosts(from, n) == [i \in 1..n |-> UtPost(from + i - 1)]

UtPostBatches == {UtPosts(1, 1), UtPosts(2, 4), UtPosts(6, 11)}

UtEmails(from, n) == [i \in 1..n |-> GmailEmail(from + n - i)]

(* The Maps passed: one sender, two senders of which one without emails,   *)
(* more emails than a window holds, and two patterns that differ in letter *)
(* case only (both sub-runs listed the same messages)                      *)
UtSenderMaps ==
    { << [sender |-> SenderA, emails |-> UtEmails(11, 1)] >>,
      << [sender |-> SenderUpperA, emails |-> UtEmails(21, 3)],
         [sender |-> SenderB, emails |-> <<>>] >>,
      << [sender |-> SenderB, emails |-> UtEmails(31, 6)] >>,
      << [sender |-> SenderUpperA, emails |-> UtEmails(41, 2)],
         [sender |-> SenderA, emails |-> UtEmails(41, 2)] >> }

(* The document earlier runs left: windows close to their limits *)
UtTweetIds == {7, 8}

UtUsedState ==
    [facebook |-> [lastSeenPosts |->
                        [i \in 1..8 |-> SeenPostOf(UtPost(20 + i))],
                   lastCrawlTime |-> NoTime],
     twitter  |-> [lastSeenId |-> NoId, lastCrawlTime |-> NoTime],
     gmail    |-> [seenIdsBySender |->
                        [k \in {SenderA, SenderB} |->
                            IF k = SenderA THEN <<4, 3, 2, 1>> ELSE <<5>>],
                   lastCrawlTime |-> NoTime]]

(* The URLs passed to extractFacebookPostId *)
(* utils.test.ts line 25 *)
STORY_URL ==
    <<"h", "t", "t", "p", "s", ":", "/", "/", "w", "w", "w", ".", "f", "a",
      "c", "e", "b", "o", "o", "k", ".", "c", "o", "m", "/", "p", "e", "r",
      "m", "a", "l", "i", "n", "k", ".", "p", "h", "p", "?", "s", "t", "o",
      "r", "y", "_", "f", "b", "i", "d", "=", "1", "2", "3", "4", "5", "6",
      "7", "8", "9", "&", "i", "d", "=", "9", "8", "7">>

(* utils.test.ts line 30 *)
POSTS_URL ==
    <<"h", "t", "t", "p", "s", ":", "/", "/", "w", "w", "w", ".", "f", "a",
      "c", "e", "b", "o", "o", "k", ".", "c", "o", "m", "/", "s", "o", "m",
      "e", "o", "n", "e", "/", "p", "o", "s", "t", "s", "/", "1", "2", "3",
      "4", "5", "6", "7", "8", "9">>

(* utils.test.ts line 39 *)
PHOTO_URL ==
    <<"h", "t", "t", "p", "s", ":", "/", "/", "w", "w", "w", ".", "f", "a",
      "c", "e", "b", "o", "o", "k", ".", "c", "o", "m", "/", "p", "h", "o",
      "t", "o">>

(* a token shorter than PFBID_LENGTH *)
SHORT_TOKEN_URL ==
    <<"h", "t", "t", "p", "s", ":", "/", "/", "w", "w", "w", ".", "f", "a",
      "c", "e", "b", "o", "o", "k", ".", "c", "o", "m", "/", "a", "/", "p",
      "o", "s", "t", "s", "/", "p", "f", "b", "i", "d", "0", "A", "b">>

(* a /posts/ id and a story_fbid *)
POSTS_STORY_URL ==
    <<"h", "t", "t", "p", "s", ":", "/", "/", "w", "w", "w", ".", "f", "a",
      "c", "e", "b", "o", "o", "k", ".", "c", "o", "m", "/", "a", "/", "p",
      "o", "s", "t", "s", "/", "4", "5", "6", "?", "s", "t", "o", "r", "y",
      "_", "f", "b", "i", "d", "=", "7", "8", "9">>

(* a story_fbid and, behind it, a token *)
STORY_TOKEN_URL ==
    <<"h", "t", "t", "p", "s", ":", "/", "/", "w", "w", "w", ".", "f", "a",
      "c", "e", "b", "o", "o", "k", ".", "c", "o", "m", "/", "a", "?", "s",
      "t", "o", "r", "y", "_", "f", "b", "i", "d", "=", "7", "8", "9", "&",
      "p", "=", "p", "f", "b", "i", "d", "0", "A", "b">>

(* no digit where the ids are expected *)
NO_ID_URL ==
    <<"h", "t", "t", "p", "s", ":", "/", "/", "w", "w", "w", ".", "f", "a",
      "c", "e", "b", "o", "o", "k", ".", "c", "o", "m", "/", "p", "o", "s",
      "t", "s", "/", "a", "b", "c", "?", "s", "t", "o", "r", "y", "_", "f",
      "b", "i", "d", "=", "&", "x", "=", "p", "f", "b", "i", "d">>

UtUrls ==
    { <<>>, X_URL, STORY_URL, POSTS_URL, PHOTO_URL, SHORT_TOKEN_URL,
      POSTS_STORY_URL, STORY_TOKEN_URL, NO_ID_URL }

(* The texts passed to createContentHash (utils.test.ts lines 47-66, and   *)
(* texts longer than HASH_PREFIX_LENGTH)                                   *)
UtTexts ==
    { Encode(<<"H", "e", "l", "l", "o", " ", "w", "o", "r", "l", "d">>),
      Encode(<<"H", "e", "l", "l", "o", " ", " ", " ", "w", "o", "r", "l", "d">>),
      Encode(<<"H", "e", "l", "l", "o", " ", "W", "o", "r", "l", "d">>),
      Encode(<<"h", "e", "l", "l", "o", " ", "w", "o", "r", "l", "d">>),
      Encode(<<" ", "H", "e", "l", "l", "o", Tab, "w", "o", "r", "l", "d",
          Newline>>),
      Encode(<<"C", "o", "n", "t", "e", "n", "t", " ", "A">>),
      Encode(<<"C", "o", "n", "t", "e", "n", "t", " ", "B">>),
      <<Run("a", HASH_PREFIX_LENGTH), Run("b", 1)>>,
      <<Run("a", HASH_PREFIX_LENGTH), Run("c", 2)>>,
      <<Run("a", HASH_PREFIX_LENGTH - 1), Run("c", 2)>> }

(* The contents passed to dedupPosts (lean.test.ts lines 170-202): a text *)
(* of DEDUP_KEY_LENGTH letters alone and continued in two ways, texts that *)
(* differ in their whitespace only, and an empty text                      *)
UtContents ==
    << [i \in 1..DEDUP_KEY_LENGTH |-> "A"],
       [i \in 1..DEDUP_KEY_LENGTH |-> "A"]
         \o <<" ", "p", "l", "u", "s", " ", "e", "x", "t", "r", "a", " ", "c",
          "o", "n", "t", "e", "n", "t", " ", "t", "h", "a", "t", " ", "m",
          "a", "k", "e", "s", " ", "t", "h", "i", "s", " ", "l", "o", "n",
          "g", "e", "r">>,
       [i \in 1..DEDUP_KEY_LENGTH |-> "A"] \o <<"B">>,
       <<"C", "o", "n", "t", "e", "n", "t", " ", "A">>,
       <<"C", "o", "n", " ", "t", "e", "n", "t", " ", "A">>,
       <<"C", "o", "n", Newline, "t", "e", "n", "t", " ", "A">>,
       <<"C", "o", "n", "t", "e", "n", "t", " ", "B">>,
       <<>> >>

(* lean.ts Post: the post at position i of the list passed, holding the    *)
(* content numbered c                                                      *)
UtLeanPost(i, c) ==
    [heading |-> POST_HEADING \o ToDecimal(i), author |-> <<"A">>,
     url |-> <<>>, date |-> <<>>, subject |-> <<>>, from |-> <<>>,
     content |-> UtContents[c], extra |-> <<>>]

UtLeanPosts ==
    UNION {{[i \in 1..n |-> UtLeanPost(i, choice[i])] :
                choice \in [1..n -> 1..Len(UtContents)]} : n \in 1..MaxItems}

(* A direct call is made: its arguments and the document before it *)
UtCalled(call) ==
    /\ utPc = "ready"
    /\ utCalls < MaxCalls
    /\ utCalls' = utCalls + 1
    /\ utCall' = call
    /\ utBefore' = stateFile
    /\ UNCHANGED <<artifacts, runs, gained, exitStatus, runLog, utPc>>
    /\ UNCHANGED nonUtVars

UtIsPostSeen ==
    \E postId \in UtIds, contentHash \in UtHashes, seenPosts \in UtSeenSets :
        /\ UtCalled([fn |-> "isPostSeen", postId |-> postId,
                     contentHash |-> contentHash, seenPosts |-> seenPosts])
        /\ utReturn' = isPostSeen(postId, contentHash, seenPosts)
        /\ UNCHANGED stateFile

UtUpdateFacebookState ==
    \E posts \in UtPostBatches :
        /\ UtCalled([fn |-> "updateFacebookState", posts |-> posts])
        /\ stateFile' = updateFacebookState(posts, utCalls + 1)
        /\ utReturn' = FALSE

UtUpdateGmailState ==
    \E emailsBySender \in UtSenderMaps :
        /\ UtCalled([fn |-> "updateGmailState",
                     emailsBySender |-> emailsBySender])
        /\ stateFile' = updateGmailState(emailsBySender, utCalls + 1)
        /\ utReturn' = FALSE

UtUpdateTwitterState ==
    \E id \in UtTweetIds :
        /\ UtCalled([fn |-> "updateTwitterState", id |-> id])
        /\ stateFile' = updateTwitterState(id, utCalls + 1)
        /\ utReturn' = FALSE

UtExtractFacebookPostId ==
    \E url \in UtUrls :
        /\ UtCalled([fn |-> "extractFacebookPostId", url |-> url])
        /\ utReturn' = extractFacebookPostId(url)
        /\ UNCHANGED stateFile

(* utils.test.ts lines 46-67: the hashes of two texts *)
UtCreateContentHash ==
    \E first \in UtTexts, second \in UtTexts :
        /\ UtCalled([fn |-> "createContentHash", first |-> first,
                     second |-> second])
        /\ utReturn' = <<createContentHash(first), createContentHash(second)>>
        /\ UNCHANGED stateFile

UtDedupPosts ==
    \E posts \in UtLeanPosts :
        /\ UtCalled([fn |-> "dedupPosts", posts |-> posts])
        /\ utReturn' = dedupPosts(posts)
        /\ UNCHANGED stateFile

InitUt ==
    /\ artifacts = <<>>
    /\ runs = 0
    /\ gained = 0
    /\ stateFile \in {DEFAULT_STATE, UtUsedState}
    /\ UtAt("ready")

NextUt ==
    \/ UtIsPostSeen
    \/ UtUpdateFacebookState
    \/ UtUpdateGmailState
    \/ UtExtractFacebookPostId
    \/ UtCreateContentHash
    \/ UtDedupPosts

----------------------------------------------------------------------------
(* Two crawl processes beside each other (bun run fb.ts, tweet.ts,         *)
(* gmail.ts started together): each ends with its updateXState call, a     *)
(* readFileSync of the document followed by a writeFileSync; the calls of  *)
(* one process are not atomic with respect to those of the other.          *)

Crawlers == {"facebook", "twitter", "gmail"}

(* What a process passes to its update call: the posts captured, the id of *)
(* the newest tweet, the emails by sender                                  *)
UpCalls(p) ==
    CASE p = "facebook" -> {[posts |-> posts] : posts \in UtPostBatches}
      [] p = "twitter"  -> {[id |-> id] : id \in UtTweetIds}
      [] p = "gmail"    -> {[emailsBySender |-> emailsBySender] :
                                emailsBySender \in UtSenderMaps}

NoCall == [none |-> TRUE]

(* The state the write of process p starts from: the const state of its    *)
(* call, read before (utils.ts lines 145, 162, 288)                        *)
StateHeld_reread(p) == stateFile

StateHeld(p) == upState[p]

(* The document process p writes (writeCrawlState, lines 158, 165, 309) *)
UpWritten(p, now) ==
    CASE p = "facebook" ->
            FacebookStateFrom(StateHeld(p), upCall[p].posts, now)
      [] p = "twitter" ->
            TwitterStateFrom(StateHeld(p), upCall[p].id, now)
      [] p = "gmail" ->
            GmailStateFrom(StateHeld(p), upCall[p].emailsBySender, now)

(* The crawl of process p has written its artifact; its update call reads  *)
(* the document                                                            *)
UpRead(p) ==
    /\ upPc[p] = "crawled"
    /\ \E call \in UpCalls(p) : upCall' = [upCall EXCEPT ![p] = call]
    /\ upState' = [upState EXCEPT ![p] = readCrawlState]
    /\ upPc' = [upPc EXCEPT ![p] = "read"]
    /\ upEvents' = Append(upEvents, [proc |-> p, op |-> "read"])
    /\ UNCHANGED stateFile
    /\ UNCHANGED nonUpVars

(* The update call of process p writes the document; the crawl resolves    *)
(* and the process ends with status 0                                      *)
UpWrite(p) ==
    /\ upPc[p] = "read"
    /\ stateFile' = UpWritten(p, Len(upEvents) + 1)
    /\ upPc' = [upPc EXCEPT ![p] = "done"]
    /\ upEvents' = Append(upEvents, [proc |-> p, op |-> "write"])
    /\ UNCHANGED <<upState, upCall>>
    /\ UNCHANGED nonUpVars

(* No process runs beside another *)
UpAbsent ==
    /\ upPc = [p \in Crawlers |-> "absent"]
    /\ upState = [p \in Crawlers |-> DEFAULT_STATE]
    /\ upCall = [p \in Crawlers |-> NoCall]
    /\ upEvents = <<>>

(* Two of the three crawlers have crawled; the document is the default one *)
(* or the one earlier runs left                                            *)
InitUp ==
    /\ \E p, q \in Crawlers :
        /\ p # q
        /\ upPc = [c \in Crawlers |->
                        IF c \in {p, q} THEN "crawled" ELSE "absent"]
    /\ upState = [p \in Crawlers |-> DEFAULT_STATE]
    /\ upCall = [p \in Crawlers |-> NoCall]
    /\ upEvents = <<>>
    /\ stateFile \in {DEFAULT_STATE, UtUsedState}
    /\ artifacts = <<>>
    /\ runs = 0
    /\ gained = 0

NextUp ==
    \/ \E p \in Crawlers : UpRead(p)
    \/ \E p \in Crawlers : UpWrite(p)

----------------------------------------------------------------------------
(* Specifications: one crawler runs at a time                              *)

InitTwitter == InitTw /\ GmAbsent /\ FbAbsent /\ UtAbsent /\ LeanAbsent /\ UpAbsent
                  /\ NoProcess

SpecTw == InitTwitter /\ [][NextTw]_vars

InitTwitterDeleted ==
    InitTwDeleted /\ GmAbsent /\ FbAbsent /\ UtAbsent /\ LeanAbsent /\ UpAbsent
                  /\ NoProcess

SpecTwDeleted == InitTwitterDeleted /\ [][NextTw]_vars

InitGmail == InitGm /\ TwAbsent /\ FbAbsent /\ UtAbsent /\ LeanAbsent /\ UpAbsent
                  /\ NoProcess

SpecGm == InitGmail /\ [][NextGm]_vars

(* The Gmail crawler on a mailbox that lists entries without an id *)
InitGmailBlank == InitGmBlank /\ TwAbsent /\ FbAbsent /\ UtAbsent /\ LeanAbsent
                      /\ UpAbsent /\ NoProcess

SpecGmBlank == InitGmailBlank /\ [][NextGm]_vars

(* The Gmail crawler configured with two spellings of one sender *)
InitGmailCase == InitGmCase /\ TwAbsent /\ FbAbsent /\ UtAbsent /\ LeanAbsent
                     /\ UpAbsent /\ NoProcess

SpecGmCase == InitGmailCase /\ [][NextGm]_vars

InitFacebook == InitFb /\ TwAbsent /\ GmAbsent /\ UtAbsent /\ LeanAbsent /\ UpAbsent
                  /\ NoProcess

SpecFb == InitFacebook /\ [][NextFb]_vars

InitFacebookLegacy ==
    InitFbLegacy /\ TwAbsent /\ GmAbsent /\ UtAbsent /\ LeanAbsent /\ UpAbsent
                  /\ NoProcess

SpecFbLegacy == InitFacebookLegacy /\ [][NextFb]_vars

(* Any one of the three crawlers *)
InitCrawler == InitTwitter \/ InitGmail \/ InitFacebook

NextCrawler == NextTw \/ NextGm \/ NextFb

SpecCrawler == InitCrawler /\ [][NextCrawler]_vars

(* The utils.ts functions called directly *)
InitUtils == InitUt /\ TwAbsent /\ GmAbsent /\ FbAbsent /\ LeanAbsent /\ UpAbsent
                    /\ NoProcess

SpecUtils == InitUtils /\ [][NextUt]_vars

(* The three state updates called one after another, as the three crawl    *)
(* processes do when they run in turn                                      *)
NextUpdates ==
    \/ UtUpdateFacebookState
    \/ UtUpdateTwitterState
    \/ UtUpdateGmailState

SpecUpdates == InitUtils /\ [][NextUpdates]_vars

(* lean.ts alone: no crawler runs, the persisted document is untouched *)
InitLean ==
    /\ InitLn
    /\ stateFile = DEFAULT_STATE
    /\ artifacts = <<>>
    /\ runs = 0
    /\ gained = 0
    /\ TwAbsent /\ GmAbsent /\ FbAbsent /\ UtAbsent /\ UpAbsent /\ NoProcess

SpecLean == InitLean /\ [][NextLn]_vars

(* Two crawl processes beside each other *)
InitRace ==
    /\ InitUp
    /\ TwAbsent /\ GmAbsent /\ FbAbsent /\ UtAbsent /\ LeanAbsent /\ NoProcess

SpecRace == InitRace /\ [][NextUp]_vars

----------------------------------------------------------------------------
(* Properties of the Twitter run                                           *)

IdsOf(posts) == [i \in 1..Len(posts) |-> posts[i].id]

FirstIndexOf(s, x) ==
    IF \E i \in 1..Len(s) : s[i] = x
    THEN CHOOSE i \in 1..Len(s) : s[i] = x /\ \A j \in 1..(i - 1) : s[j] # x
    ELSE 0

TwStopped == twPc \in {"results", "written", "done"}

TwWatermarkMet ==
    /\ twLastSeenId # NoId
    /\ FirstIndexOf(twFetched, twLastSeenId) # 0

(* C2: once a fetched page holds the tweet whose id is the non-null        *)
(* lastSeenId, the run has stopped with reason reached_previous, its       *)
(* result is exactly the tweets fetched before that tweet, in source       *)
(* order, and the page holding it is the last page fetched.                *)
C2_StopsAtWatermark ==
    TwWatermarkMet =>
        LET at == FirstIndexOf(twFetched, twLastSeenId)
        IN  /\ TwStopped
            /\ twStoppedReason = "reached_previous"
            /\ IdsOf(twPosts) = SubSeq(twFetched, 1, at - 1)
            /\ at > Len(twFetched) - Len(twLastPage.list)

(* The watermark sits at position 2 of 3 on page two *)
C2_Witness ==
    /\ twPc = "done"
    /\ TwWatermarkMet
    /\ twPageCount = 2
    /\ Len(twLastPage.list) = 3
    /\ twLastPage.list[2] = twLastSeenId
    /\ Len(twFetched) > 3
    /\ Len(twPosts) = Len(twFetched) - 2

(* C3: when the last fetched page is empty and non-empty pages came before *)
(* it, the run has stopped with reason query_exhausted holding exactly the *)
(* items of the non-empty pages.                                           *)
C3_EmptyPageQueryExhausted ==
    ( /\ twPageCount >= 2
      /\ twFetched # <<>>
      /\ twLastPage.list = <<>>
      /\ twPc \notin {"idle", "failed"} )
    => /\ TwStopped
       /\ twStoppedReason = "query_exhausted"
       /\ IdsOf(twPosts) = twFetched

(* C4: when the last fetched page is non-empty, holds no watermark tweet   *)
(* and carries no next cursor, the run has stopped with reason             *)
(* query_exhausted after capturing that page's items.                      *)
C4_NoCursorQueryExhausted ==
    ( /\ twPageCount >= 1
      /\ twLastPage.list # <<>>
      /\ twLastPage.next = NoId
      /\ ~TwWatermarkMet
      /\ twPc \notin {"idle", "failed"} )
    => /\ TwStopped
       /\ twStoppedReason = "query_exhausted"
       /\ IdsOf(twPosts) = twFetched

TwAllPagesGoOn ==
    /\ ~TwWatermarkMet
    /\ twPagesGoOn

(* C5: a run fetches at most 10 pages; while every fetched page is         *)
(* non-empty, has a next cursor and holds no watermark tweet, the run goes *)
(* on until the 10th page and then has stopped with reason api_limit       *)
(* holding all tweets of those pages in source order.                      *)
C5_PageLimit ==
    /\ twPageCount <= 10
    /\ (TwAllPagesGoOn /\ twPc \notin {"idle", "failed"}) =>
        /\ IdsOf(twPosts) = twFetched
        /\ twStoppedReason = "api_limit"
        /\ (twPageCount < 10 => twPc = "loop")
        /\ (twPageCount = 10 => TwStopped)

C5_Witness ==
    /\ TwAllPagesGoOn
    /\ twPageCount = 10
    /\ twPc = "done"
    /\ twStoppedReason = "api_limit"
    /\ Len(twPosts) >= 10

----------------------------------------------------------------------------
(* Properties of the Gmail per-sender sub-run                              *)

HasId(x) == x # NoId

(* The entries of the listed pages that carry an id, in listing order *)
GmListedIds == SelectSeq(gmListed, HasId)

(* Position in GmListedIds of the first id held by the seen-ID window *)
GmFirstSeenAt ==
    IF \E i \in 1..Len(GmListedIds) : GmListedIds[i] \in Range(gmSeenIds)
    THEN CHOOSE i \in 1..Len(GmListedIds) :
            /\ GmListedIds[i] \in Range(gmSeenIds)
            /\ \A j \in 1..(i - 1) : GmListedIds[j] \notin Range(gmSeenIds)
    ELSE 0

(* crawlSender is in its loop or has just returned (it did not throw) *)
GmInSubRun == gmPc \in {"list", "return"}

(* The scan met a seen id: one is listed and the cap was not hit before it *)
GmSeenIdMet ==
    /\ GmFirstSeenAt # 0
    /\ GmFirstSeenAt - 1 < gmConfig.maxEmails

(* C6: once the sub-run has met a listed message id held by the sender's   *)
(* seen-ID window, it has returned with reason reached_previous exactly    *)
(* the emails listed before that message, in listing order, and fetched    *)
(* neither that message nor a later one.                                   *)
C6_StopsAtSeenEmail ==
    (GmInSubRun /\ GmSeenIdMet) =>
        /\ gmPc = "return"
        /\ gmStoppedReason = "reached_previous"
        /\ EmailIds(gmEmails) = SubSeq(GmListedIds, 1, GmFirstSeenAt - 1)
        /\ gmFetched = SubSeq(GmListedIds, 1, GmFirstSeenAt - 1)

(* An email was captured, then a seen id was met with a later one listed *)
C6_Witness ==
    /\ gmPc = "return"
    /\ GmSeenIdMet
    /\ GmFirstSeenAt = 2
    /\ Len(GmListedIds) > 2
    /\ Len(gmEmails) = 1

(* C7: a sub-run never holds more than maxEmails emails; once a capture    *)
(* brought their number to maxEmails the sub-run has returned with reason  *)
(* scroll_limit and fetched no message beyond the captured ones.           *)
C7_EmailCap ==
    /\ Len(gmEmails) <= gmConfig.maxEmails
    /\ (Len(gmEmails) >= 1 /\ Len(gmEmails) = gmConfig.maxEmails) =>
        /\ gmPc # "list"
        /\ gmStoppedReason = "scroll_limit"
        /\ gmFetched = EmailIds(gmEmails)
        /\ gmFetched = SubSeq(GmListedIds, 1, gmConfig.maxEmails)

(* The cap of 2 was hit with a further message listed in the same page *)
C7_Witness ==
    /\ gmPc = "return"
    /\ gmConfig.maxEmails = 2
    /\ Len(gmEmails) = 2
    /\ Len(GmListedIds) > 2
    /\ gmStoppedReason = "scroll_limit"

(* Neither the cap nor a seen id was hit *)
GmNothingHit ==
    /\ GmFirstSeenAt = 0
    /\ Len(GmListedIds) < gmConfig.maxEmails

(* C8: once a listed page is empty or carries no next page token, and      *)
(* neither the cap nor a seen id was hit, the sub-run has returned with    *)
(* reason query_exhausted all listed messages, in listing order.           *)
C8_QueryExhausted ==
    ( /\ GmInSubRun
      /\ gmListCount >= 1
      /\ \/ gmLastPage.messages = <<>>
         \/ gmLastPage.next = NoId
      /\ GmNothingHit )
    => /\ gmPc = "return"
       /\ gmStoppedReason = "query_exhausted"
       /\ EmailIds(gmEmails) = GmListedIds

(* A page with a message and a next token, then an empty page *)
C8_Witness ==
    /\ gmPc = "return"
    /\ gmListCount = 2
    /\ gmLastPage.messages = <<>>
    /\ GmNothingHit
    /\ Len(gmEmails) >= 1
    /\ gmStoppedReason = "query_exhausted"

----------------------------------------------------------------------------
(* Properties of the Facebook run                                          *)

FbInRun == fbPc \in {"scroll", "results", "written"}

(* The non-null ids and the hashes the seen-set of this run stores *)
FbSeenIds == {fbSeenPosts[i].postId : i \in 1..Len(fbSeenPosts)} \ {null}

FbSeenHashes == {fbSeenPosts[i].contentHash : i \in 1..Len(fbSeenPosts)}

(* The checked element's post id or content hash is in the seen-set *)
FbMatches(entry) ==
    entry.postId \in FbSeenIds \/ entry.contentHash \in FbSeenHashes

(* Position of the first checked element that matches, 0 when none does *)
FbFirstMatch ==
    LET hits == {k \in 1..Len(fbChecked) : FbMatches(fbChecked[k])}
    IN  IF hits = {} THEN 0 ELSE CHOOSE k \in hits : \A j \in hits : k <= j

(* C9: once an element whose post id or content hash is in the non-empty   *)
(* seen-set has reached the seen check, the loop is over with reason       *)
(* reached_previous: no element was checked after it, the posts are those  *)
(* of the elements checked before it, in that order, and no scroll was     *)
(* performed since it was checked.                                         *)
C9_StopsAtSeenPost ==
    (FbInRun /\ FbFirstMatch # 0) =>
        /\ fbPc # "scroll"
        /\ fbStoppedReason = "reached_previous"
        /\ FbFirstMatch = Len(fbChecked)
        /\ Len(fbPosts) = Len(fbChecked) - 1
        /\ \A i \in 1..Len(fbPosts) :
              extractFacebookPostId(fbPosts[i].url) = fbChecked[i].postId
        /\ fbScrolled = fbCheckedAt

(* The second checked element matches by its hash alone, in the first of   *)
(* several scroll steps, after one post was captured                       *)
C9_Witness ==
    /\ fbPc = "results"
    /\ fbStoppedReason = "reached_previous"
    /\ FbFirstMatch = 2
    /\ fbChecked[2].postId = null
    /\ Len(fbPosts) = 1
    /\ fbScrolled = 0
    /\ fbScroll + 1 < MAX_SCROLL(fbEnv)

(* The scenario: the seen-set is the fixture and the first element checked *)
(* is the newest feed item, whose URL carries the longer permalink token   *)
FbScenario ==
    /\ FbInRun
    /\ fbSeenPosts = SeenFixture
    /\ Len(fbFeed) >= 1
    /\ fbFeed[1] = StoryX
    /\ Len(fbChecked) >= 1
    /\ fbChecked[1].postId = extractFacebookPostId(X_URL)

----------------------------------------------------------------------------
(* Properties of the utils.ts functions called directly                    *)

(* The first n elements of s *)
FirstN(s, n) == [i \in 1..(IF Len(s) < n THEN Len(s) ELSE n) |-> s[i]]

(* C11: isPostSeen returns true exactly when some stored entry has a       *)
(* postId equal to the non-null candidate id or a contentHash equal to the *)
(* candidate hash; it returns false for the empty seen-set.                *)
C11_IsPostSeen ==
    utCall.fn = "isPostSeen" =>
        LET seen == utCall.seenPosts
            idMatch == /\ utCall.postId # null
                       /\ \E i \in 1..Len(seen) : seen[i].postId = utCall.postId
            hashMatch == \E i \in 1..Len(seen) :
                            seen[i].contentHash = utCall.contentHash
        IN  /\ utReturn = (idMatch \/ hashMatch)
            /\ (seen = <<>> => utReturn = FALSE)

(* The id alone matches an entry of the two-entry seen-set *)
C11_Witness ==
    /\ utCall.fn = "isPostSeen"
    /\ utCall.seenPosts = SeenPostsFixture
    /\ utCall.postId = SeenPostsFixture[1].postId
    /\ utCall.contentHash \notin
            {SeenPostsFixture[i].contentHash : i \in 1..2}
    /\ utReturn = TRUE

(* C12: facebook.lastSeenPosts never has more than 10 entries, and after   *)
(* an updateFacebookState call it is the first 10 entries of the entries   *)
(* of the posts passed, in their order, followed by the window as it was   *)
(* before the call.                                                        *)
C12_FacebookWindow ==
    /\ Len(stateFile.facebook.lastSeenPosts) <= 10
    /\ utCall.fn = "updateFacebookState" =>
        stateFile.facebook.lastSeenPosts =
            FirstN([i \in 1..Len(utCall.posts) |-> SeenPostOf(utCall.posts[i])]
                       \o utBefore.facebook.lastSeenPosts, 10)

(* Four posts were merged into a window of eight: two old entries fell out *)
C12_Witness ==
    /\ utCall.fn = "updateFacebookState"
    /\ Len(utCall.posts) = 4
    /\ Len(utBefore.facebook.lastSeenPosts) = 8
    /\ Len(stateFile.facebook.lastSeenPosts) = 10
    /\ stateFile.facebook.lastSeenPosts[5] = utBefore.facebook.lastSeenPosts[1]

(* The normalized sender patterns of a Map's keys *)
SendersOf(emailsBySender) ==
    {toLowerCase(emailsBySender[i].sender) : i \in 1..Len(emailsBySender)}

(* The ids a Map holds for a normalized pattern; of two keys that differ   *)
(* in letter case only, the later key's ids come first                     *)
RECURSIVE NewIdsOf(_, _)
NewIdsOf(emailsBySender, key) ==
    IF emailsBySender = <<>> THEN <<>>
    ELSE NewIdsOf(Tail(emailsBySender), key)
            \o (IF toLowerCase(emailsBySender[1].sender) = key
                THEN EmailIds(emailsBySender[1].emails) ELSE <<>>)

(* C13: no sender's window ever has more than 5 ids, and after an          *)
(* updateGmailState call the window of every sender of the call is the     *)
(* first 5 of that sender's new ids followed by its window before the      *)
(* call, while every other sender's window is as it was before the call.   *)
C13_GmailWindows ==
    LET after == stateFile.gmail.seenIdsBySender
        before == utBefore.gmail.seenIdsBySender
    IN  /\ \A k \in DOMAIN after : Len(after[k]) <= 5
        /\ utCall.fn = "updateGmailState" =>
            /\ DOMAIN after = DOMAIN before \cup SendersOf(utCall.emailsBySender)
            /\ \A k \in SendersOf(utCall.emailsBySender) :
                  after[k] = FirstN(NewIdsOf(utCall.emailsBySender, k)
                                        \o SeenIdsOf(before, k), 5)
            /\ \A k \in DOMAIN before \ SendersOf(utCall.emailsBySender) :
                  after[k] = before[k]

(* Three new ids of one sender pushed two old ids out of its window of     *)
(* four; the other sender of the call had no email, a third none           *)
C13_Witness ==
    /\ utCall.fn = "updateGmailState"
    /\ Len(utCall.emailsBySender) = 2
    /\ utBefore.gmail.seenIdsBySender = UtUsedState.gmail.seenIdsBySender
    /\ stateFile.gmail.seenIdsBySender[SenderA] = <<23, 22, 21, 4, 3>>
    /\ stateFile.gmail.seenIdsBySender[SenderB] = <<5>>

----------------------------------------------------------------------------
(* Properties of the artifacts of successive runs                          *)

(* C1: the artifacts two runs of a crawler wrote share no item: a later    *)
(* run emits none of the items an earlier run emitted.                     *)
C1_NoReEmission ==
    \A i \in 1..Len(artifacts) : \A j \in 1..Len(artifacts) :
        (i < j /\ artifacts[i].platform = artifacts[j].platform) =>
            Range(artifacts[i].posts) \cap Range(artifacts[j].posts) = {}

----------------------------------------------------------------------------
(* Properties of a run's writes and of the way it ends                     *)

Platforms == {"twitter", "gmail", "facebook"}

(* The artifacts the current run of a platform wrote *)
ArtifactsOfRun(platform) ==
    {i \in 1..Len(artifacts) :
        artifacts[i].platform = platform /\ artifacts[i].run = runs}

(* The crawler's run is over without an error having left it *)
RunEnded == twPc = "done" \/ gmPc = "done" \/ fbPc = "done"

(* C14: whenever the persisted document carries a platform's state as a    *)
(* run updated it (lastCrawlTime is that run's clock reading), the         *)
(* artifact of that run has been written.                                  *)
C14_StateAfterArtifact ==
    \A p \in Platforms :
        stateFile[p].lastCrawlTime # NoTime =>
            \E i \in 1..Len(artifacts) :
                /\ artifacts[i].platform = p
                /\ artifacts[i].run = stateFile[p].lastCrawlTime

(* C15: a run that is over and held no item when its loop ended has        *)
(* written no artifact and left the persisted document, with every         *)
(* lastCrawlTime, as it was when the run started.                          *)
C15_ZeroItemRun ==
    (RunEnded /\ runLog.captured = 0) =>
        /\ Len(artifacts) = runLog.artifacts
        /\ stateFile = runLog.state

(* The second run captured nothing after the first run wrote an artifact   *)
(* and a watermark with its crawl time                                     *)
C15_Witness ==
    /\ RunEnded
    /\ runs = 2
    /\ runLog.captured = 0
    /\ Len(artifacts) = 1
    /\ \E p \in Platforms : stateFile[p].lastCrawlTime = 1

(* C16: after a Twitter run that captured tweets and completed,            *)
(* twitter.lastSeenId is the id of the first tweet captured, which is the  *)
(* first tweet of the first fetched page; at every other point             *)
(* it has the value it had when the run started.                           *)
C16_NewestIdWatermark ==
    IF twPc = "done" /\ Len(twPosts) > 0
    THEN /\ stateFile.twitter.lastSeenId = twPosts[1].id
         /\ stateFile.twitter.lastSeenId = twFetched[1]
    ELSE stateFile.twitter.lastSeenId = runLog.state.twitter.lastSeenId

(* Tweets of two pages were captured and the watermark moved to the first *)
C16_Witness ==
    /\ twPc = "done"
    /\ twPageCount >= 2
    /\ Len(twPosts) >= 4
    /\ stateFile.twitter.lastSeenId = twFetched[1]
    /\ runLog.state.twitter.lastSeenId # NoId
    /\ runLog.state.twitter.lastSeenId # twFetched[1]

(* C17: once a page fetch has thrown in a Twitter run, no artifact was     *)
(* written by the run and the persisted document is as it was when the     *)
(* run started.                                                            *)
C17_FetchThrowsAllOrNothing ==
    (twPc # "absent" /\ runLog.threw) =>
        /\ Len(artifacts) = runLog.artifacts
        /\ ArtifactsOfRun("twitter") = {}
        /\ stateFile = runLog.state

(* The third fetch threw after two pages of tweets were captured *)
C17_Witness ==
    /\ twPc = "failed"
    /\ runLog.threw
    /\ twPageCount = 3
    /\ Len(twPosts) >= 2
    /\ stateFile.twitter.lastSeenId # twPosts[1].id

(* C18: once an error has left the crawl function of a run, the process    *)
(* has ended with a non-zero exit status; a run that ends otherwise exits  *)
(* with status 0.                                                          *)
C18_FatalExitsNonZero ==
    /\ runLog.threw => (exitStatus # Running /\ exitStatus # 0)
    /\ (RunEnded /\ ~runLog.threw) => exitStatus = 0

----------------------------------------------------------------------------
(* Properties of the Gmail run over all senders                            *)

(* The Gmail run has left the loop over the senders *)
GmLoopOver == gmPc \in {"finish", "updated", "done"}

(* The sub-runs of this run that threw *)
GmThrew == {i \in 1..Len(gmSubRuns) : gmSubRuns[i].threw}

(* The window of the sender of sub-run i in a document *)
GmWindowIn(doc, i) ==
    SeenIdsOf(doc.gmail.seenIdsBySender,
              toLowerCase(gmConfig.allowedSenders[gmSubRuns[i].sender]))

(* The ids of the messages of the sender of sub-run i *)
GmMessagesOf(i) ==
    Range(gmSource[toLowerCase(gmConfig.allowedSenders[gmSubRuns[i].sender])])

(* C19: the senders are crawled in configuration order whether or not      *)
(* earlier sub-runs threw, all of them once the loop is over; a sender     *)
(* whose sub-run threw has none of its messages among the run's emails or  *)
(* in the run's artifact, the ones it fetched before the failure included, *)
(* and its seen-ID window is as it was when the run started.               *)
C19_SenderFailureIsolated ==
    /\ \A i \in 1..Len(gmSubRuns) : gmSubRuns[i].sender = i
    /\ GmLoopOver => Len(gmSubRuns) = Len(gmConfig.allowedSenders)
    /\ gmPc \in {"sender", "list", "return", "caught"} =>
            Len(gmSubRuns) = gmIdx - 1
    /\ \A i \in GmThrew :
        /\ Range(EmailIds(gmAllEmails)) \cap GmMessagesOf(i) = {}
        /\ \A a \in ArtifactsOfRun("gmail") :
              Range(EmailIds(artifacts[a].posts)) \cap GmMessagesOf(i) = {}
        /\ GmWindowIn(stateFile, i) = GmWindowIn(runLog.state, i)

(* The first sender threw after it had fetched an email; the second was    *)
(* crawled and its emails were written and recorded                        *)
C19_Witness ==
    /\ gmPc = "done"
    /\ Len(gmSubRuns) = 2
    /\ gmSubRuns[1].threw
    /\ gmSubRuns[1].held
    /\ ~gmSubRuns[2].threw
    /\ gmSubRuns[2].held
    /\ ArtifactsOfRun("gmail") # {}
    /\ GmWindowIn(stateFile, 2) # GmWindowIn(runLog.state, 2)

(* C20: once the loop over the senders is over, the run's stop reason is   *)
(* scroll_limit if a sub-run returned scroll_limit (it ended on the        *)
(* per-sender cap) and query_exhausted otherwise; the run writes at most   *)
(* one artifact, which carries that reason.                                *)
C20_FinalStoppedReason ==
    GmLoopOver =>
        /\ gmFinalStoppedReason =
              IF \E i \in 1..Len(gmSubRuns) : gmSubRuns[i].capped
              THEN "scroll_limit" ELSE "query_exhausted"
        /\ Cardinality(ArtifactsOfRun("gmail")) <= 1
        /\ \A a \in ArtifactsOfRun("gmail") :
              artifacts[a].stoppedReason = gmFinalStoppedReason

(* The first sender ended on the cap, the second did not and held emails   *)
C20_Witness ==
    /\ gmPc = "done"
    /\ Len(gmSubRuns) = 2
    /\ gmSubRuns[1].capped
    /\ ~gmSubRuns[2].capped
    /\ ~gmSubRuns[2].threw
    /\ gmSubRuns[2].held
    /\ gmFinalStoppedReason = "scroll_limit"
    /\ \E a \in ArtifactsOfRun("gmail") :
          artifacts[a].stoppedReason = "scroll_limit"

----------------------------------------------------------------------------
(* The Facebook loop within one run                                        *)

(* The first CONTENT_KEY_LENGTH characters of every post of a list *)
KeysOf(posts) == [i \in 1..Len(posts) |-> ContentKey(posts[i].content)]

NoKeyTwice(posts) ==
    \A i, j \in 1..Len(posts) : i < j => KeysOf(posts)[i] # KeysOf(posts)[j]

(* C21: within one Facebook run no two captured posts share their first    *)
(* 100 characters of cleaned content, neither among the posts held by the  *)
(* loop nor in the artifact written from them: an element captured in one  *)
(* scroll step and still visible in a later one is not captured again.     *)
C21_NoDuplicateCapture ==
    /\ NoKeyTwice(fbPosts)
    /\ \A a \in 1..Len(artifacts) :
          artifacts[a].platform = "facebook" => NoKeyTwice(artifacts[a].posts)

(* two steps were taken, and the second one saw again the two elements the *)
(* first one had captured                                                  *)
C21_Witness ==
    /\ fbPc = "results"
    /\ fbScroll = 2
    /\ fbDom >= 2
    /\ Len(fbPosts) = 2
    /\ fbCheckedAt = 0

(* The batch without its element at position bad *)
WithoutElement(batch, bad) ==
    SubSeq(batch, 1, bad - 1) \o SubSeq(batch, bad + 1, Len(batch))

(* C22: a scroll step in which the extraction of one element throws ends   *)
(* as the step over the same batch without that element does: the other    *)
(* elements of the step are captured or recognised as seen, the run does   *)
(* not abort, and unless a seen post was reached the loop goes on to the   *)
(* next scroll step.                                                       *)
C22_ElementErrorSkipped ==
    [][\A dom \in 1..Len(fbFeed), bad \in 1..Len(fbFeed) :
         FbScrollStepOn(dom, bad, "throws") =>
           LET others == ScanStories(WithoutElement(SubSeq(fbFeed, 1, dom), bad),
                                     1, fbPosts, fbSeenContent, fbChecked,
                                     fbSeenPosts, 0, "noText")
           IN  /\ fbPosts' = others.posts
               /\ fbChecked' = others.checked
               /\ fbPc' \in {"scroll", "results"}
               /\ exitStatus' = Running
               /\ fbStoppedReason' = IF others.reached THEN "reached_previous"
                                     ELSE "scroll_limit"
               /\ ~others.reached => fbScroll' = fbScroll + 1]_vars

(* after the first step: an element was added to seenContent without being *)
(* checked against the seen-set (its extraction threw), and an element     *)
(* behind it in the same batch was captured                                *)
C22_Witness ==
    /\ fbPc \in {"scroll", "results"}
    /\ fbScroll = 1
    /\ fbFaults = 1
    /\ Cardinality(fbSeenContent) = Len(fbChecked) + 1
    /\ \E b, j \in 1..fbDom :
          /\ b < j
          /\ ExtractedOf[fbFeed[b], FALSE].contentKey \in fbSeenContent
          /\ PostOf(fbFeed[b]) \notin Range(fbPosts)
          /\ PostOf(fbFeed[j]) \in Range(fbPosts)

(* The scroll step that finds no story element *)
FbEmptyStep == FbScrollStepOn(0, 0, "noText")

(* C23 as stated: a scroll step whose visible batch is empty stops the     *)
(* run with reason scroll_limit, no further scroll step being taken.       *)
C23_EmptyBatchStops ==
    [][FbEmptyStep => fbPc' = "results" /\ fbStoppedReason' = "scroll_limit"]_vars

(* C23, amended: a scroll step whose visible batch is empty captures       *)
(* nothing and leaves the stop reason at scroll_limit; it counts as one of *)
(* the FB_MAX_SCROLL steps, and the loop goes on with the next step unless *)
(* it was the last of them.                                                *)
C23_EmptyBatchGoesOn ==
    [][FbEmptyStep =>
         /\ fbPosts' = fbPosts
         /\ fbSeenContent' = fbSeenContent
         /\ fbStoppedReason' = "scroll_limit"
         /\ fbScroll' = fbScroll + 1
         /\ fbPc' = IF fbScroll + 1 < MAX_SCROLL(fbEnv) THEN "scroll"
                    ELSE "results"]_vars

(* the first step found nothing and the loop is about to take the second   *)
C23_Witness ==
    /\ fbPc = "scroll"
    /\ fbScroll = 1
    /\ fbDom = 0
    /\ fbFeed # <<>>
    /\ fbSeenContent = {}

----------------------------------------------------------------------------
(* The artifacts and their parser (utils.ts generate*MD, lean.ts)          *)

(* lean.ts main() has parsed the artifact it read *)
LeanParsed == leanPc \in {"lean", "reparsed"}

(* What the emitter wrote for item i of a source, in the fields of a       *)
(* parsed post: the heading, the metadata lines, the content and, for a    *)
(* tweet, its quoted and retweeted sections                                *)
EmittedPost(source, i) ==
    LET item == source.items[i]
        none == [heading |-> POST_HEADING \o ToDecimal(i), author |-> <<>>,
                 url |-> <<>>, date |-> <<>>, subject |-> <<>>,
                 from |-> <<>>, content |-> item.content, extra |-> <<>>]
    IN  CASE source.platform = FACEBOOK ->
                [none EXCEPT !.author = item.author,
                             !.url = IF item.url = <<>> THEN NOT_AVAILABLE
                                     ELSE item.url]
          [] source.platform = TWITTER ->
                [none EXCEPT !.author = item.author \o <<" ", "(", "@">>
                                            \o item.username \o <<")">>,
                             !.date = item.createdAt,
                             !.url = item.url,
                             !.extra = TrimText(TweetExtras(item))]
          [] source.platform = GMAIL ->
                [none EXCEPT !.heading = EMAIL_HEADING \o ToDecimal(i),
                             !.from = item.from,
                             !.subject = item.subject,
                             !.date = item.date]

(* C24: parseMdFile recovers from an emitted artifact, per item and in     *)
(* order, the emitted metadata lines, the emitted content and, for a       *)
(* tweet, the quoted and the retweeted text.                               *)
C24_RoundTrip ==
    LeanParsed =>
        /\ Len(leanParsed.posts) = Len(leanSource.items)
        /\ \A i \in 1..Len(leanSource.items) :
                leanParsed.posts[i] = EmittedPost(leanSource, i)

(* C25: for an artifact emitted from n items, parseMdFile yields the       *)
(* frontmatter postCount = n as a number, the platform, the crawlTime and  *)
(* the stoppedReason that were emitted, and exactly n posts.               *)
C25_ParsedHeader ==
    LeanParsed =>
        LET fm == leanParsed.frontmatter
        IN  /\ {PLATFORM, CRAWL_TIME, POST_COUNT, STOPPED_REASON}
                    \subseteq DOMAIN fm
            /\ fm[POST_COUNT] = [number |-> Len(leanSource.items)]
            /\ fm[PLATFORM] = [string |-> leanSource.platform]
            /\ fm[CRAWL_TIME] = [string |-> leanSource.crawlTime]
            /\ fm[STOPPED_REASON] = [string |-> leanSource.stoppedReason]
            /\ Len(leanParsed.posts) = Len(leanSource.items)

(* The header of an artifact: its lines up to the second rule *)
HeaderLines(raw) ==
    LET lines == SplitLines(raw)
        rules == {i \in 2..Len(lines) : lines[i] = RULE}
    IN  IF rules = {} THEN lines ELSE SubSeq(lines, 1, Least(rules))

(* The lines of an artifact that open a post section *)
HeadingLines(raw) ==
    LET lines == SplitLines(raw)
    IN  {i \in 1..Len(lines) : IsHeading(lines[i])}

C28_LeanReparse ==
    leanPc = "reparsed" =>
        LET emitted == CleanedPosts(FmText(leanParsed.frontmatter, PLATFORM),
                                    leanParsed.posts)
        IN  /\ Len(leanReparsed.posts) = Len(emitted)
            /\ \A i \in 1..Len(emitted) :
                    leanReparsed.posts[i] =
                        [emitted[i] EXCEPT
                            !.heading = POST_HEADING \o ToDecimal(i),
                            !.url = IF emitted[i].url = NOT_AVAILABLE
                                    THEN <<>> ELSE emitted[i].url]

----------------------------------------------------------------------------
(* Direct calls of dedupPosts, createContentHash and extractFacebookPostId *)

(* The first DEDUP_KEY_LENGTH characters of a content whose whitespace     *)
(* runs are each collapsed to one space                                    *)
CollapsedPrefix(content) == Slice(CollapseRuns(content), DEDUP_KEY_LENGTH)

(* a character that is not a blank, a tab or a line break *)
IsSolid(c) == c \notin {" ", Tab, Newline}

(* The characters of a content that are not whitespace *)
Solid(content) == SelectSeq(content, IsSolid)

(* The first DEDUP_KEY_LENGTH characters of a content that are not         *)
(* whitespace                                                              *)
SolidPrefix(content) == Slice(Solid(content), DEDUP_KEY_LENGTH)

(* The posts returned are posts passed, no two of them with the same       *)
(* prefix, and every post passed that is in wanted has its prefix kept by  *)
(* a returned post whose content is at least as long                       *)
DedupedBy(kind, posts, result, wanted) ==
    LET Prefix(post) == IF kind = "collapsed" THEN CollapsedPrefix(post.content)
                        ELSE SolidPrefix(post.content)
        given == [i \in 1..Len(posts) |-> Prefix(posts[i])]
        kept == [r \in 1..Len(result) |-> Prefix(result[r])]
    IN  /\ \A r \in 1..Len(result) : \E i \in 1..Len(posts) : result[r] = posts[i]
        /\ \A r, q \in 1..Len(result) : kept[r] = kept[q] => r = q
        /\ \A i \in wanted :
                \E r \in 1..Len(result) :
                    /\ kept[r] = given[i]
                    /\ Len(result[r].content) >= Len(posts[i].content)

RECURSIVE Decode(_)
Decode(t) ==
    IF t = <<>> THEN <<>>
    ELSE [i \in 1..t[1].n |-> t[1].c] \o Decode(Tail(t))

(* The text the hash is said to depend on: whitespace runs collapsed to    *)
(* one space, trimmed, in lower case, cut to HASH_PREFIX_LENGTH characters *)
NormalForm(text) ==
    Slice(toLowerCase(TrimText(CollapseRuns(Decode(text)))),
          HASH_PREFIX_LENGTH)

(* C29: two texts that are equal after collapsing whitespace runs to one   *)
(* space, trimming, lowercasing and cutting to 150 characters receive the  *)
(* same hash from createContentHash; so do two calls on the same text.     *)
C29_HashOfNormalForm ==
    utCall.fn = "createContentHash" =>
        (NormalForm(utCall.first) = NormalForm(utCall.second)
            => utReturn[1] = utReturn[2])

(* Two different texts with one normal form were hashed *)
C29_Witness ==
    /\ utCall.fn = "createContentHash"
    /\ utCall.first # utCall.second
    /\ NormalForm(utCall.first) = NormalForm(utCall.second)
    /\ utReturn[1] = utReturn[2]
    /\ \E other \in UtTexts : createContentHash(other) # utReturn[1]

(* The characters of class that follow the leftmost occurrence of lead     *)
(* that has such a character behind it; the empty text when there is none  *)
ValueAfter(url, lead, class) ==
    LET n == Len(lead)
        found == {i \in 1..(Len(url) - n) :
                    /\ \A k \in 1..n : url[i + k - 1] = lead[k]
                    /\ InClass(url[i + n], class)}
        start == Least(found) + n
        last == CHOOSE e \in start..Len(url) :
                    /\ \A k \in start..e : InClass(url[k], class)
                    /\ (e < Len(url) => ~InClass(url[e + 1], class))
    IN  IF found = {} THEN <<>> ELSE SubSeq(url, start, last)

(* C30: extractFacebookPostId returns 'pfbid' and the first 20 characters  *)
(* of the permalink token when the URL has one, else 'story_' and the      *)
(* digits of the story_fbid query value, else 'post_' and the digits of    *)
(* the /posts/ path id; it returns null for the empty URL and for a URL of *)
(* none of the three shapes.                                               *)
C30_PostIdPriority ==
    utCall.fn = "extractFacebookPostId" =>
        LET url == utCall.url
            token == ValueAfter(url, <<"p", "f", "b", "i", "d">>, "alnum")
            story == ValueAfter(url, <<"s", "t", "o", "r", "y", "_", "f", "b",
                                       "i", "d", "=">>, "digit")
            posts == ValueAfter(url, <<"/", "p", "o", "s", "t", "s", "/">>,
                                "digit")
        IN  utReturn =
                IF token # <<>>
                THEN <<"p", "f", "b", "i", "d">> \o Slice(token, 20)
                ELSE IF story # <<>>
                THEN <<"s", "t", "o", "r", "y", "_">> \o story
                ELSE IF posts # <<>>
                THEN <<"p", "o", "s", "t", "_">> \o posts
                ELSE null

(* A URL with a /posts/ id and, behind it, a story_fbid: the story id is   *)
(* returned                                                                *)
C30_Witness ==
    /\ utCall.fn = "extractFacebookPostId"
    /\ utCall.url = POSTS_STORY_URL
    /\ utReturn = <<"s", "t", "o", "r", "y", "_", "7", "8", "9">>

----------------------------------------------------------------------------
(* Two crawl processes beside each other                                   *)

(* The position in upEvents of the read or the write of process p, 0 when  *)
(* it has not happened                                                     *)
EventAt(p, op) ==
    LET at == {i \in 1..Len(upEvents) : upEvents[i] = [proc |-> p, op |-> op]}
    IN  IF at = {} THEN 0 ELSE Least(at)

(* Process q read the document before process p wrote it and wrote it      *)
(* after                                                                   *)
Overlapped(p, q) ==
    /\ EventAt(q, "read") # 0
    /\ EventAt(q, "read") < EventAt(p, "write")
    /\ EventAt(p, "write") < EventAt(q, "write")

(* C31: when the update calls of two crawl processes overlap, one reading  *)
(* the document before the other writes it and writing it after, both      *)
(* processes end successfully and the final document holds, in the section *)
(* of the process that wrote first, what was there before its update: that *)
(* watermark update is lost.                                               *)
C31_LostUpdate ==
    \A p, q \in Crawlers :
        (p # q /\ upPc[p] = "done" /\ upPc[q] = "done" /\ Overlapped(p, q))
            => /\ stateFile[p] = upState[p][p]
               /\ stateFile[p].lastCrawlTime # EventAt(p, "write")

(* The Twitter process wrote lastSeenId 8 while the Facebook process held  *)
(* the document it had read; both ended, lastSeenId is null                *)
C31_Witness ==
    /\ upPc["twitter"] = "done"
    /\ upPc["facebook"] = "done"
    /\ Overlapped("twitter", "facebook")
    /\ upCall["twitter"].id = 8
    /\ stateFile.twitter.lastSeenId = NoId
    /\ stateFile.facebook.lastCrawlTime = EventAt("facebook", "write")

----------------------------------------------------------------------------
(* Content across runs                                                     *)

(* The ids of the tweets the Twitter artifacts hold *)
TwEmitted ==
    UNION {{artifacts[i].posts[k].id : k \in 1..Len(artifacts[i].posts)} :
                i \in {j \in 1..Len(artifacts) :
                            artifacts[j].platform = "twitter"}}

(* The latest Twitter run is over and stopped at the previous watermark or *)
(* on the page cap, every page before having had tweets and a next cursor  *)
TwRunStoppedOnWatermarkOrCap ==
    /\ twPc = "done"
    /\ exitStatus = 0
    /\ \/ twStoppedReason = "reached_previous"
       \/ twPagesGoOn /\ twPageCount = MAX_PAGES

(* C32: no content is lost across runs: when a Twitter run is over, every  *)
(* tweet of the list that is newer than the watermark the run started with *)
(* and not newer than the watermark it persisted is in some artifact, also *)
(* when the run stopped on its page cap before reaching the watermark.     *)
C32_NoContentLost ==
    TwRunStoppedOnWatermarkOrCap =>
        \A id \in Range(twSource) :
            (id > runLog.state.twitter.lastSeenId
                /\ id <= stateFile.twitter.lastSeenId) => id \in TwEmitted

----------------------------------------------------------------------------
(* The bounds of the pagination loops                                      *)

(* C33: every pagination loop is bounded by a configured maximum step      *)
(* count: a Twitter run fetches at most MAX_PAGES pages, a Facebook run    *)
(* makes at most FB_MAX_SCROLL scroll steps, and a crawlSender sub-run of  *)
(* Gmail makes at most maxEmails list calls, whatever the mailbox answers. *)
C33_LoopsBounded ==
    /\ twPageCount <= MAX_PAGES
    /\ fbScroll <= MAX_SCROLL(fbEnv)
    /\ gmListCount <= gmConfig.maxEmails

(* The positions in the latest step's page calls of the calls op makes *)
CallsOf(op) == {k \in 1..Len(fbOps) : fbOps[k].op = op}

(* C34: in every scroll step, every show-more button visible in the step   *)
(* is clicked before the text of any element is read, and the viewport is  *)
(* scrolled only after all elements of the step were read and processed.   *)
C34_ClickReadScroll ==
    fbOps # <<>> =>
      /\ \A i \in 1..fbDom :
            HasButton(fbFeed[i].innerText) =>
                \E k \in CallsOf("click") : fbOps[k].el = i
      /\ \A c \in CallsOf("click"), r \in CallsOf("innerText") : c < r
      /\ \A s \in CallsOf("scrollBy") :
            /\ s = Len(fbOps)
            /\ \A i \in 1..fbDom :
                  \E r \in CallsOf("innerText") : r < s /\ fbOps[r].el = i

(* a step clicked a button, read three elements and scrolled *)
C34_Witness ==
    /\ fbPc \in {"scroll", "results"}
    /\ fbDom = 3
    /\ CallsOf("click") # {}
    /\ Cardinality(CallsOf("innerText")) = 3
    /\ CallsOf("scrollBy") # {}
    /\ Len(fbPosts) = 3


(* C35: a Twitter run never emits a tweet whose id is older than or equal  *)
(* to the persisted lastSeenId it started with, also when the tweet of     *)
(* that id is no longer in the list.                                       *)
C35_NothingBelowWatermark ==
    twLastSeenId # NoId =>
        \A k \in 1..Len(twPosts) : twPosts[k].id > twLastSeenId


(* The window entry updateFacebookState stored for post is in the          *)
(* persisted document                                                      *)
Persisted(post) ==
    SeenPostOf(post) \in Range(stateFile.facebook.lastSeenPosts)

(* C36: for every post a Facebook run captured from an element of the feed *)
(* and persisted, the contentHash stored in the window (computed from the  *)
(* content cut to 500 characters) equals the contentHash the crawler       *)
(* computes from the element's full cleaned text on a later run.           *)
C36_StoredHashIsCrawlHash ==
    \A a \in 1..Len(artifacts) :
        artifacts[a].platform = "facebook" =>
            \A k \in 1..Len(artifacts[a].posts), el \in Range(fbFeed) :
                LET post == artifacts[a].posts[k]
                    f == ExtractedOf[el, FALSE]
                IN  (post.content = f.post.content /\ Persisted(post)) =>
                        SeenPostOf(post).contentHash = f.contentHash


(* C37: if the extraction of an element throws at one scroll step after    *)
(* its text was read, the post is captured at a later scroll step of the   *)
(* same run in which the element is read without a failing call and is not *)
(* a post of the seen window.                                              *)
C37_ThrownCapturedLater ==
    [][\A dom \in 1..Len(fbFeed), i \in fbThrown :
          LET f == ExtractedOf[fbFeed[i], FALSE]
          IN  (/\ FbScrollStepOn(dom, 0, "noText")
               /\ \E r \in 1..Len(fbOps') : fbOps'[r] = PageCall("innerText", i)
               /\ ~ReachedPrevious(f.postId, f.contentHash, fbSeenPosts))
                  => f.post \in Range(fbPosts')]_vars


(* The window the latest Facebook artifact's posts make *)
LatestWindow ==
    LET posts == artifacts[Len(artifacts)].posts
    IN  Slice([i \in 1..Len(posts) |-> SeenPostOf(posts[i])], MAX_SEEN_POSTS)

(* C38: a Facebook run that captured posts ends with updateFacebookState   *)
(* having completed and stored the new window, also when the facebook      *)
(* section of the persisted document has no lastSeenPosts.                 *)
C38_LegacyWindowStored ==
    (fbPc \in {"done", "failed"} /\ runLog.captured > 0) =>
        /\ exitStatus = 0
        /\ HasWindow(stateFile)
        /\ Slice(stateFile.facebook.lastSeenPosts, Len(LatestWindow))
                = LatestWindow


(* The section of the document an update function owns *)
SectionOf(fn) ==
    IF fn = "updateFacebookState" THEN "facebook"
    ELSE IF fn = "updateTwitterState" THEN "twitter"
    ELSE "gmail"

(* C39: called one after another on a readable document,                   *)
(* updateFacebookState changes only the facebook section,                  *)
(* updateTwitterState only the twitter section and updateGmailState only   *)
(* the gmail section: the other sections of the written document are those *)
(* of the document before the call.                                        *)
C39_OnlyOwnSection ==
    utCalls > 0 =>
        \A section \in DOMAIN stateFile \ {SectionOf(utCall.fn)} :
            stateFile[section] = utBefore[section]

(* updateTwitterState was called on a document holding a Facebook window   *)
(* and Gmail windows, after another update had stamped its own section     *)
C39_Witness ==
    /\ utCalls = 2
    /\ utCall.fn = "updateTwitterState"
    /\ stateFile.twitter = [lastSeenId |-> 8, lastCrawlTime |-> 2]
    /\ Len(stateFile.facebook.lastSeenPosts) = MAX_SEEN_POSTS
    /\ stateFile.facebook.lastCrawlTime = 1
    /\ DOMAIN stateFile.gmail.seenIdsBySender = {SenderA, SenderB}


(* No value occurs twice in the sequence ids *)
NoIdTwice(ids) ==
    \A i, j \in 1..Len(ids) : ids[i] = ids[j] => i = j

(* C40: within one Gmail run no message id is emitted twice in the         *)
(* artifact or stored twice in a sender's seen-ID window, also when        *)
(* several configured sender patterns, or patterns that differ only in     *)
(* letter case, match the same message.                                    *)
C40_NoMessageTwice ==
    /\ \A a \in 1..Len(artifacts) :
          artifacts[a].platform = "gmail" =>
              NoIdTwice(EmailIds(artifacts[a].posts))
    /\ \A k \in DOMAIN stateFile.gmail.seenIdsBySender :
          NoIdTwice(stateFile.gmail.seenIdsBySender[k])


====
